---- MODULE Spec2Model ----
(***************************************************************************)
(* A model of the emolang pipeline: the tokenizer (src/src/lexer.rs), the  *)
(* Pratt parser (src/src/parser.rs) over the cursor of src/src/util.rs,    *)
(* and the tree-walking evaluator (src/src/evaluator.rs).                  *)
(*                                                                         *)
(* The surface syntax of the language is made of emoji grapheme clusters.  *)
(* The model writes every cluster and operator with an ASCII mnemonic:     *)
(*   "<-" assign    "+" plus    "-" minus    "*" multiply    "/" divide    *)
(*   "%" modulo     "=" equal   ">" greater  "<" less        "!" else      *)
(*   "&" and        "|" or      "~" not      ";" semicolon   "," comma     *)
(*   "(" ")" parentheses        "{" "}" braces               "." dot       *)
(*   "[" "]" brackets           "'" string-open              "^" string-   *)
(*   close          "if" "fn" "return" "while" "true" "false" keywords     *)
(* and the two-cluster operators are the two mnemonics in a row: ">=",     *)
(* "<=" and "!=".                                                          *)
(***************************************************************************)
EXTENDS Integers, Sequences, FiniteSets, TLC

VARIABLES
    program,      \* evaluator: the Node handed to eval
    env,          \* evaluator: Environment.map
    result,       \* evaluator: what eval returned
    log,          \* evaluator: every eval call that returned, in completion order
    phase,        \* evaluator: "idle" | "ready" | "done" | "aborted"
    tokens,       \* parser: Parser.tokens.vector, the Start token first
    position,     \* parser: Parser.tokens.position, counted from 0
    errors,       \* parser: Parser.errors
    pstatements,  \* parser: program.statements of parse_program
    plog,         \* parser: one entry for every parse_statement call of parse_program
    pphase,       \* parser: "idle" | "parsing" | "done" | "panicked" | "diverged"
    chars,        \* lexer: Lexer.chars.vector, the grapheme clusters of the input
    cposition,    \* lexer: Lexer.chars.position, counted from 0
    lexed,        \* lexer: the tokens vector tokenize is building
    lphase,       \* lexer: "idle" | "new" | "scanning" | "done"
    round,        \* printing: 0 off, 1 the source is being parsed, 2 its printed text is
    first,        \* printing: the statement that was printed
    printed,      \* printing: the clusters of the text string() returned for it
    scope,        \* types::Environment: the maps of the chain, the innermost first
    called,       \* types::Environment: the last call on it and what it returned
    rphase,       \* repl: "off" | "prompt" | "line" | "aborted"
    lines,        \* repl: the number of lines read
    output,       \* repl: for every line that was answered, the line and the answer
    vvector,      \* StatefulVector.vector
    vposition,    \* StatefulVector.position, a usize
    vcalled,      \* StatefulVector: the last call on it and what it returned
    vbuild        \* StatefulVector: the build, overflow checks on ("debug") or off ("release")

evalVars == <<program, env, result, log, phase>>
parseVars == <<tokens, position, errors, pstatements, plog, pphase>>
lexVars == <<chars, cposition, lexed, lphase>>
vars == <<program, env, result, log, phase,
          tokens, position, errors, pstatements, plog, pphase,
          chars, cposition, lexed, lphase, round, first, printed, scope, called,
          rphase, lines, output, vvector, vposition, vcalled, vbuild>>
replVars == <<rphase, lines, output>>
vecVars == <<vvector, vposition, vcalled, vbuild>>
scopeVars == <<scope, called>>
printVars == <<round, first, printed>>

(***************************************************************************)
(* Bounds of the explored inputs.                                          *)
(***************************************************************************)
MaxDepth == 2
MaxStmts == 3
MaxInt == 3
MaxTokens == 3
MaxChars == 4

(***************************************************************************)
(* Object (src/src/types/object.rs) and Result<Object, String>.            *)
(***************************************************************************)
IntegerObj(n) == [type |-> "Integer", int |-> n]
FloatObj(f) == [type |-> "Float", float |-> f]
BooleanObj(b) == [type |-> "Boolean", bool |-> b]
StringObj(s) == [type |-> "String", str |-> s]
NULL == [type |-> "Null"]
ReturnValue(o) == [type |-> "ReturnValue", boxed |-> o]
TRUE_OBJ == BooleanObj(TRUE)
FALSE_OBJ == BooleanObj(FALSE)

Ok(o) == [kind |-> "Ok", obj |-> o]
Err(m) == [kind |-> "Err", msg |-> m]
\* A Rust panic: the process aborts, nothing is returned to the caller.
Panic(m) == [kind |-> "Panic", msg |-> m]

IsOk(r) == r.kind = "Ok"
IsErr(r) == r.kind = "Err"
IsPanic(r) == r.kind = "Panic"
IsReturnValue(o) == o.type = "ReturnValue"

to_bool_object(value) == IF value THEN TRUE_OBJ ELSE FALSE_OBJ

(***************************************************************************)
(* Node, the tagged AST the evaluator matches on.                          *)
(***************************************************************************)
Program(stmts) == [node |-> "Program", statements |-> stmts]
ExpressionStatement(e) == [node |-> "ExpressionStatement", expression |-> e]
IntegerLiteral(n) == [node |-> "IntegerLiteral", int |-> n]
\* an f64 literal is held as the decimal mant / 10^scale
FloatLiteral(m, sc) == [node |-> "FloatLiteral", mant |-> m, scale |-> sc]
BooleanLiteral(b) == [node |-> "BooleanLiteral", bool |-> b]
StringLiteral(s) == [node |-> "StringLiteral", str |-> s]
Identifier(n) == [node |-> "Identifier", name |-> n]
PrefixExpression(op, r) == [node |-> "PrefixExpression", operator |-> op, right |-> r]
InfixExpression(l, op, r) ==
    [node |-> "InfixExpression", left |-> l, operator |-> op, right |-> r]
BlockStatement(stmts) == [node |-> "BlockStatement", statements |-> stmts]
\* alternative is an Option: <<>> is None, <<b>> is Some(b)
IfExpression(c, cons, alt) ==
    [node |-> "IfExpression", condition |-> c, consequence |-> cons, alternative |-> alt]
ReturnStatement(v) == [node |-> "ReturnStatement", value |-> v]
AssignStatement(n, v) == [node |-> "AssignStatement", name |-> Identifier(n), value |-> v]
FunctionLiteral(nm, params, body) ==
    [node |-> "FunctionLiteral", fname |-> nm, parameters |-> params, body |-> body]

(***************************************************************************)
(* Environment of the evaluator: one HashMap, no parent.                   *)
(***************************************************************************)
EmptyEnv == [x \in {} |-> NULL]
\* EnvSet with a fault: a name that is bound keeps its binding
EnvSet_first_wins(e, identifier, value) == e @@ (identifier :> value)
\* EnvSet with a fault: the map is replaced, the other bindings are lost
EnvSet_alone(e, identifier, value) == (identifier :> value)
EnvSet(e, identifier, value) == (identifier :> value) @@ e
EnvHas(e, identifier) == identifier \in DOMAIN e

(***************************************************************************)
(* f64.  A finite value is a sign and a reduced fraction num / den (the     *)
(* sign is kept on zero too), next to the two infinities and NaN.  The     *)
(* operations follow IEEE 754 on these values; rounding is not modelled,   *)
(* a quotient is held exactly.                                             *)
(***************************************************************************)
RECURSIVE GCD(_, _)
GCD(a, b) == IF b = 0 THEN a ELSE GCD(b, a % b)
RECURSIVE Pow10(_)
Pow10(k) == IF k = 0 THEN 1 ELSE 10 * Pow10(k - 1)

Fin(neg, n, d) ==
    LET g == GCD(n, d)
    IN  [fk |-> "fin", neg |-> neg, num |-> n \div g, den |-> d \div g]
Inf(neg) == [fk |-> "inf", neg |-> neg]
NaN == [fk |-> "nan"]
IsNaN(x) == x.fk = "nan"
IsInf(x) == x.fk = "inf"
IsZero(x) == x.fk = "fin" /\ x.num = 0

\* the literal mant / 10^scale as an f64
f64_of_decimal(m, sc) == Fin(FALSE, m, Pow10(sc))
\* `i as f64`
f64_of_i64(i) == IF i < 0 THEN Fin(TRUE, -i, 1) ELSE Fin(FALSE, i, 1)
\* a signed fraction n / d (d > 0), a zero takes the sign zneg
f64_of_signed(n, d, zneg) ==
    IF n = 0 THEN Fin(zneg, 0, 1)
    ELSE IF n < 0 THEN Fin(TRUE, -n, d) ELSE Fin(FALSE, n, d)
\* the signed numerator of a finite value
SNum(x) == IF x.neg THEN -x.num ELSE x.num

f64_neg(x) ==
    CASE IsNaN(x) -> NaN
      [] IsInf(x) -> Inf(~x.neg)
      [] OTHER -> [x EXCEPT !.neg = ~x.neg]

f64_add(x, y) ==
    CASE IsNaN(x) \/ IsNaN(y) -> NaN
      [] IsInf(x) -> IF IsInf(y) /\ y.neg # x.neg THEN NaN ELSE x
      [] IsInf(y) -> y
      [] OTHER -> f64_of_signed(SNum(x) * y.den + SNum(y) * x.den,
                                x.den * y.den, x.neg /\ y.neg)

f64_sub(x, y) == f64_add(x, f64_neg(y))

f64_mul(x, y) ==
    CASE IsNaN(x) \/ IsNaN(y) -> NaN
      [] IsInf(x) \/ IsInf(y) ->
            IF IsZero(x) \/ IsZero(y) THEN NaN ELSE Inf(x.neg # y.neg)
      [] OTHER -> Fin(x.neg # y.neg, x.num * y.num, x.den * y.den)

f64_div(x, y) ==
    CASE IsNaN(x) \/ IsNaN(y) -> NaN
      [] IsInf(x) -> IF IsInf(y) THEN NaN ELSE Inf(x.neg # y.neg)
      [] IsInf(y) -> Fin(x.neg # y.neg, 0, 1)
      [] IsZero(y) -> IF IsZero(x) THEN NaN ELSE Inf(x.neg # y.neg)
      [] OTHER -> Fin(x.neg # y.neg, x.num * y.den, x.den * y.num)

\* fmod: the remainder of the truncated quotient, with the dividend's sign
f64_rem(x, y) ==
    CASE IsNaN(x) \/ IsNaN(y) -> NaN
      [] IsInf(x) \/ IsZero(y) -> NaN
      [] IsInf(y) -> x
      [] OTHER ->
            LET a == x.num * y.den
                b == y.num * x.den
            IN  Fin(x.neg, a % b, x.den * y.den)

f64_eq(x, y) ==
    CASE IsNaN(x) \/ IsNaN(y) -> FALSE
      [] IsInf(x) \/ IsInf(y) -> x = y
      [] OTHER -> SNum(x) * y.den = SNum(y) * x.den

f64_lt(x, y) ==
    CASE IsNaN(x) \/ IsNaN(y) -> FALSE
      [] IsInf(x) -> x.neg /\ ~(IsInf(y) /\ y.neg)
      [] IsInf(y) -> ~y.neg
      [] OTHER -> SNum(x) * y.den < SNum(y) * x.den

\* ObjectEq with a fault: a ReturnValue is compared by what it wraps
ObjectEq_unboxing(l, r) ==
    LET a == IF l.type = "ReturnValue" THEN l.boxed ELSE l
        b == IF r.type = "ReturnValue" THEN r.boxed ELSE r
    IN  a = b

\* the derived PartialEq of Object: same variant and equal payloads
RECURSIVE ObjectEq(_, _)
ObjectEq(l, r) ==
    IF l.type # r.type THEN FALSE
    ELSE CASE l.type = "Float" -> f64_eq(l.float, r.float)
           [] l.type = "ReturnValue" -> ObjectEq(l.boxed, r.boxed)
           [] OTHER -> l = r

(***************************************************************************)
(* Operators on evaluated operands.                                        *)
(***************************************************************************)
\* eval_prefix_not_expression with a fault: an Integer is true when it is
\* not zero, and a ReturnValue is looked through
eval_prefix_not_expression_nonzero(obj) ==
    LET o == IF IsReturnValue(obj) THEN obj.boxed ELSE obj
        value ==
            CASE o.type = "Integer" -> o.int # 0
              [] o.type = "Float" -> f64_lt(f64_of_i64(0), o.float)
              [] o.type = "Boolean" -> o.bool
              [] o.type = "String" -> o.str # ""
              [] OTHER -> FALSE
    IN  Ok(to_bool_object(~value))

eval_prefix_not_expression(obj) ==
    IF IsReturnValue(obj)
    THEN Err("Invalid prefix not expression to evaluate return expression")
    ELSE LET value ==
                 CASE obj.type = "Integer" -> obj.int > 0
                   [] obj.type = "Float" -> f64_lt(f64_of_i64(0), obj.float)
                   [] obj.type = "Boolean" -> obj.bool
                   [] obj.type = "String" -> obj.str # ""
                   [] obj.type = "Null" -> FALSE
                   [] OTHER -> FALSE
         IN  Ok(to_bool_object(~value))

eval_prefix_minus_expression(obj) ==
    CASE obj.type = "Integer" -> Ok(IntegerObj(-obj.int))
      [] obj.type = "Float" -> Ok(FloatObj(f64_neg(obj.float)))
      [] OTHER -> Err("Invalid prefix minus expression to evaluate non-numeric value")

eval_prefix_expression(operator, right) ==
    CASE operator = "~" -> eval_prefix_not_expression(right)
      [] operator = "-" -> eval_prefix_minus_expression(right)
      [] OTHER -> Err("Invalid prefix expressions to evaluate values")

\* Rust's i64 `/` truncates toward zero and panics on a zero divisor.
TruncDiv(l, r) ==
    LET al == IF l < 0 THEN -l ELSE l
        ar == IF r < 0 THEN -r ELSE r
        q == al \div ar
    IN  IF (l < 0) = (r < 0) THEN q ELSE -q

\* Rust's i64 `%` takes the sign of the dividend and panics on a zero divisor.
TruncRem(l, r) == l - r * TruncDiv(l, r)

eval_integer_infix_expression(operator, left, right) ==
    CASE operator = "+" -> Ok(IntegerObj(left + right))
      [] operator = "-" -> Ok(IntegerObj(left - right))
      [] operator = "*" -> Ok(IntegerObj(left * right))
      [] operator = "/" ->
            IF right = 0 THEN Panic("attempt to divide by zero")
            ELSE Ok(IntegerObj(TruncDiv(left, right)))
      [] operator = "%" ->
            IF right = 0
            THEN Panic("attempt to calculate the remainder with a divisor of zero")
            ELSE Ok(IntegerObj(TruncRem(left, right)))
      [] operator = "=" -> Ok(to_bool_object(left = right))
      [] operator = "!=" -> Ok(to_bool_object(left # right))
      [] operator = ">" -> Ok(to_bool_object(left > right))
      [] operator = ">=" -> Ok(to_bool_object(left >= right))
      [] operator = "<" -> Ok(to_bool_object(left < right))
      [] operator = "<=" -> Ok(to_bool_object(left <= right))
      [] OTHER -> Err("Invalid infix expression operator")

eval_float_infix_expression(operator, left, right) ==
    CASE operator = "+" -> Ok(FloatObj(f64_add(left, right)))
      [] operator = "-" -> Ok(FloatObj(f64_sub(left, right)))
      [] operator = "*" -> Ok(FloatObj(f64_mul(left, right)))
      [] operator = "/" -> Ok(FloatObj(f64_div(left, right)))
      [] operator = "%" -> Ok(FloatObj(f64_rem(left, right)))
      [] operator = "=" -> Ok(to_bool_object(f64_eq(left, right)))
      [] operator = "!=" -> Ok(to_bool_object(~f64_eq(left, right)))
      [] operator = ">" -> Ok(to_bool_object(f64_lt(right, left)))
      [] operator = ">=" -> Ok(to_bool_object(f64_lt(right, left) \/ f64_eq(left, right)))
      [] operator = "<" -> Ok(to_bool_object(f64_lt(left, right)))
      [] operator = "<=" -> Ok(to_bool_object(f64_lt(left, right) \/ f64_eq(left, right)))
      [] OTHER -> Err("Invalid infix expression operator")

\* eval_infix_expression with a fault: the two arms that promote an Integer
\* next to a Float are missing
eval_infix_expression_no_promotion(operator, left, right) ==
    IF left.type = "Integer" /\ right.type = "Integer"
    THEN eval_integer_infix_expression(operator, left.int, right.int)
    ELSE IF left.type = "Float" /\ right.type = "Float"
    THEN eval_float_infix_expression(operator, left.float, right.float)
    ELSE IF operator = "=" THEN Ok(to_bool_object(ObjectEq(left, right)))
    ELSE IF operator = "!=" THEN Ok(to_bool_object(~ObjectEq(left, right)))
    ELSE Err("Invalid infix expression")

\* the chain of if-lets, in its order
eval_infix_expression(operator, left, right) ==
    IF left.type = "Integer" /\ right.type = "Integer"
    THEN eval_integer_infix_expression(operator, left.int, right.int)
    ELSE IF left.type = "Integer" /\ right.type = "Float"
    THEN eval_float_infix_expression(operator, f64_of_i64(left.int), right.float)
    ELSE IF left.type = "Float" /\ right.type = "Float"
    THEN eval_float_infix_expression(operator, left.float, right.float)
    ELSE IF left.type = "Float" /\ right.type = "Integer"
    THEN eval_float_infix_expression(operator, left.float, f64_of_i64(right.int))
    ELSE IF operator = "=" THEN Ok(to_bool_object(ObjectEq(left, right)))
    ELSE IF operator = "!=" THEN Ok(to_bool_object(~ObjectEq(left, right)))
    ELSE Err("Invalid infix expression")

\* eval_identifier with a fault: an unbound name is Null
eval_identifier_null(value, e) ==
    IF EnvHas(e, value) THEN Ok(e[value]) ELSE Ok(NULL)

eval_identifier(value, e) ==
    IF EnvHas(e, value) THEN Ok(e[value])
    ELSE Err("identifier not found: " \o value)

(***************************************************************************)
(* eval: the recursive walk.  Every call takes the environment and yields  *)
(* [res, env, log]: its Result, the environment it leaves behind, and the  *)
(* log extended by one entry [path, res] for each call that returned.  A   *)
(* path is the position of a node in the tree: statement i of a Program or *)
(* block is child i, the expression of a statement and the operand of a    *)
(* prefix operator are child 0, and Left, Right, Cond, Cons, Alt name the  *)
(* other expression children.                                              *)
(***************************************************************************)
Child == [left |-> -1, right |-> -2, cond |-> -3, cons |-> -4, alt |-> -5]
Left == Child.left
Right == Child.right
Cond == Child.cond
Cons == Child.cons
Alt == Child.alt

Out(r, e, l) == [res |-> r, env |-> e, log |-> l]
Logged(o, path) ==
    IF IsPanic(o.res) THEN o
    ELSE Out(o.res, o.env, Append(o.log, [path |-> path, res |-> o.res]))

EmptyStatements == Err("Empty statements to evaluate values")

RECURSIVE eval(_, _, _, _)
RECURSIVE eval_program_loop(_, _, _, _, _, _)
RECURSIVE eval_block_loop(_, _, _, _, _, _)

\* eval_program_loop with a fault: the ReturnValue is handed on without unwrapping
eval_program_loop_no_unwrap(statements, i, res, e, path, l) ==
    IF i > Len(statements) THEN Out(res, e, l)
    ELSE LET o == eval(statements[i], e, path \o <<i>>, l)
         IN  IF IsPanic(o.res) THEN o
             ELSE IF IsOk(o.res) /\ IsReturnValue(o.res.obj)
             THEN o
             ELSE eval_program_loop(statements, i + 1, o.res, o.env, path, o.log)

\* eval_block_loop with a fault: the block goes on after a ReturnValue
eval_block_loop_no_stop(statements, i, res, e, path, l) ==
    IF i > Len(statements) THEN Out(res, e, l)
    ELSE LET o == eval(statements[i], e, path \o <<i>>, l)
         IN  IF IsPanic(o.res) THEN o
             ELSE eval_block_loop(statements, i + 1, o.res, o.env, path, o.log)

\* for statement in statements { result = eval(statement, env);
\*   if let Ok(ReturnValue(value)) = result { return Ok(*value) } }  result
eval_program_loop(statements, i, res, e, path, l) ==
    IF i > Len(statements) THEN Out(res, e, l)
    ELSE LET o == eval(statements[i], e, path \o <<i>>, l)
         IN  IF IsPanic(o.res) THEN o
             ELSE IF IsOk(o.res) /\ IsReturnValue(o.res.obj)
             THEN Out(Ok(o.res.obj.boxed), o.env, o.log)
             ELSE eval_program_loop(statements, i + 1, o.res, o.env, path, o.log)

\* the same loop, but a ReturnValue is returned as it is
eval_block_loop(statements, i, res, e, path, l) ==
    IF i > Len(statements) THEN Out(res, e, l)
    ELSE LET o == eval(statements[i], e, path \o <<i>>, l)
         IN  IF IsPanic(o.res) THEN o
             ELSE IF IsOk(o.res) /\ IsReturnValue(o.res.obj)
             THEN o
             ELSE eval_block_loop(statements, i + 1, o.res, o.env, path, o.log)

eval_program(statements, e, path, l) ==
    eval_program_loop(statements, 1, EmptyStatements, e, path, l)

eval_block_statements(statements, e, path, l) ==
    eval_block_loop(statements, 1, EmptyStatements, e, path, l)

\* eval_if_expression with a fault: both blocks are evaluated, the
\* alternative first, and the consequence decides when the condition holds
eval_if_expression_both(condition, consequence, alternative, e, path, l) ==
    LET c == eval(condition, e, path \o <<Cond>>, l)
    IN  IF ~IsOk(c.res) THEN c
        ELSE LET cond == CASE c.res.obj.type = "Null" -> FALSE
                           [] c.res.obj.type = "Boolean" -> c.res.obj.bool
                           [] OTHER -> TRUE
                 a == IF alternative # <<>>
                      THEN eval(alternative[1], c.env, path \o <<Alt>>, c.log)
                      ELSE Out(Ok(NULL), c.env, c.log)
             IN  IF cond THEN eval(consequence, a.env, path \o <<Cons>>, a.log)
                 ELSE a

eval_if_expression(condition, consequence, alternative, e, path, l) ==
    LET c == eval(condition, e, path \o <<Cond>>, l)
    IN  IF ~IsOk(c.res) THEN c
        ELSE LET cond == CASE c.res.obj.type = "Null" -> FALSE
                           [] c.res.obj.type = "Boolean" -> c.res.obj.bool
                           [] OTHER -> TRUE
             IN  IF cond THEN eval(consequence, c.env, path \o <<Cons>>, c.log)
                 ELSE IF alternative # <<>>
                 THEN eval(alternative[1], c.env, path \o <<Alt>>, c.log)
                 ELSE Out(Ok(NULL), c.env, c.log)

eval_node(node, e, path, l) ==
    CASE node.node = "Program" -> eval_program(node.statements, e, path, l)
      [] node.node = "ExpressionStatement" -> eval(node.expression, e, path \o <<0>>, l)
      [] node.node = "IntegerLiteral" -> Out(Ok(IntegerObj(node.int)), e, l)
      [] node.node = "FloatLiteral" ->
            Out(Ok(FloatObj(f64_of_decimal(node.mant, node.scale))), e, l)
      [] node.node = "BooleanLiteral" -> Out(Ok(BooleanObj(node.bool)), e, l)
      [] node.node = "StringLiteral" -> Out(Ok(StringObj(node.str)), e, l)
      [] node.node = "PrefixExpression" ->
            LET r == eval(node.right, e, path \o <<0>>, l)
            IN  IF ~IsOk(r.res) THEN r
                ELSE Out(eval_prefix_expression(node.operator, r.res.obj), r.env, r.log)
      [] node.node = "InfixExpression" ->
            LET lf == eval(node.left, e, path \o <<Left>>, l)
            IN  IF ~IsOk(lf.res) THEN lf
                ELSE LET rt == eval(node.right, lf.env, path \o <<Right>>, lf.log)
                     IN  IF ~IsOk(rt.res) THEN rt
                         ELSE Out(eval_infix_expression(node.operator, lf.res.obj, rt.res.obj),
                                  rt.env, rt.log)
      [] node.node = "BlockStatement" -> eval_block_statements(node.statements, e, path, l)
      [] node.node = "IfExpression" ->
            eval_if_expression(node.condition, node.consequence, node.alternative, e, path, l)
      [] node.node = "ReturnStatement" ->
            LET v == eval(node.value, e, path \o <<0>>, l)
            IN  IF ~IsOk(v.res) THEN v
                ELSE Out(Ok(ReturnValue(v.res.obj)), v.env, v.log)
      [] node.node = "AssignStatement" ->
            LET v == eval(node.value, e, path \o <<0>>, l)
            IN  IF ~IsOk(v.res) THEN v
                ELSE Out(Ok(v.res.obj), EnvSet(v.env, node.name.name, v.res.obj), v.log)
      [] node.node = "Identifier" -> Out(eval_identifier(node.name, e), e, l)
      [] OTHER -> Out(Err("Invalid expressions or statements to evaluate values"), e, l)

eval(node, e, path, l) == Logged(eval_node(node, e, path, l), path)

(***************************************************************************)
(* The programs explored.  Leaf statements are the three statement kinds   *)
(* over the atoms; a nested statement wraps a body (one statement of the   *)
(* level below, optionally followed by an assignment to "b") in a block or *)
(* in an if-expression, to MaxDepth levels.  A program is a sequence of up *)
(* to MaxStmts leaf statements, or a nested statement alone or followed by *)
(* one leaf statement.                                                     *)
(***************************************************************************)
Atoms == {IntegerLiteral(1), IntegerLiteral(2), Identifier("a")}

LeafStatements ==
    {ExpressionStatement(x) : x \in Atoms}
        \cup {AssignStatement("a", x) : x \in Atoms}
        \cup {ReturnStatement(x) : x \in Atoms}

Tails == {<<>>, <<AssignStatement("b", IntegerLiteral(2))>>}

Wrappers == {"Block", "IfThen", "IfElse", "AssignIf", "ReturnIf"}

Wrap(w, body) ==
    CASE w = "Block" -> BlockStatement(body)
      [] w = "IfThen" ->
            ExpressionStatement(
                IfExpression(IntegerLiteral(1), BlockStatement(body), <<>>))
      [] w = "IfElse" ->
            ExpressionStatement(
                IfExpression(BooleanLiteral(FALSE),
                             BlockStatement(<<ExpressionStatement(IntegerLiteral(1))>>),
                             <<BlockStatement(body)>>))
      [] w = "AssignIf" ->
            AssignStatement("a", IfExpression(IntegerLiteral(1), BlockStatement(body), <<>>))
      [] w = "ReturnIf" ->
            ReturnStatement(IfExpression(IntegerLiteral(1), BlockStatement(body), <<>>))

RECURSIVE Nested(_)
Nested(d) ==
    IF d = 0 THEN LeafStatements
    ELSE LET below == Nested(d - 1)
         IN  below \cup {Wrap(w, <<s>> \o t) : w \in Wrappers, s \in below, t \in Tails}

RECURSIVE LeafSeqs(_)
LeafSeqs(n) ==
    IF n = 0 THEN {<<>>}
    ELSE LET shorter == LeafSeqs(n - 1)
         IN  shorter \cup {Append(q, s) : q \in shorter, s \in LeafStatements}

Programs ==
    {Program(q) : q \in LeafSeqs(MaxStmts)}
        \cup {Program(<<s>> \o rest) : s \in Nested(MaxDepth), rest \in LeafSeqs(1)}

(***************************************************************************)
(* The evaluator as a state machine: a program is handed to eval with a    *)
(* fresh environment, as the shell does for every line it reads.           *)
(***************************************************************************)
NoResult == [kind |-> "None"]

ParserIdle ==
    /\ tokens = <<>>
    /\ position = 0
    /\ errors = <<>>
    /\ pstatements = <<>>
    /\ plog = <<>>
    /\ pphase = "idle"

LexerIdle ==
    /\ chars = <<>>
    /\ cposition = 0
    /\ lexed = <<>>
    /\ lphase = "idle"

ReplIdle ==
    /\ rphase = "off"
    /\ lines = 0
    /\ output = <<>>

VectorIdle ==
    /\ vvector = <<>>
    /\ vposition = 0
    /\ vcalled = [op |-> "none"]
    /\ vbuild = "release"

PrintIdle ==
    /\ round = 0
    /\ first = <<>>
    /\ printed = <<>>
    /\ scope = <<>>
    /\ called = [op |-> "none"]

InitEval ==
    /\ ReplIdle
    /\ VectorIdle
    /\ program \in Programs
    /\ env = EmptyEnv
    /\ result = NoResult
    /\ log = <<>>
    /\ phase = "ready"
    /\ ParserIdle
    /\ LexerIdle
    /\ PrintIdle

\* eval(program, &mut env): it returns a Result, or it panics and the
\* process aborts
Evaluate ==
    /\ phase = "ready"
    /\ LET o == eval(program, env, <<>>, <<>>)
       IN  /\ result' = o.res
           /\ env' = o.env
           /\ log' = o.log
           /\ phase' = IF IsPanic(o.res) THEN "aborted" ELSE "done"
    /\ UNCHANGED program
    /\ UNCHANGED <<parseVars, lexVars, printVars, scopeVars, replVars, vecVars>>

NextEval == Evaluate

SpecEval == InitEval /\ [][NextEval]_vars

(***************************************************************************)
(* Reading the log.                                                        *)
(***************************************************************************)
ChildOf(node, c) ==
    CASE node.node \in {"Program", "BlockStatement"} -> node.statements[c]
      [] node.node = "ExpressionStatement" -> node.expression
      [] node.node \in {"ReturnStatement", "AssignStatement"} -> node.value
      [] node.node = "PrefixExpression" -> node.right
      [] node.node = "InfixExpression" -> IF c = Left THEN node.left ELSE node.right
      [] node.node = "IfExpression" ->
            IF c = Cond THEN node.condition
            ELSE IF c = Cons THEN node.consequence
            ELSE node.alternative[1]

RECURSIVE NodeAt(_, _)
NodeAt(node, path) ==
    IF path = <<>> THEN node ELSE NodeAt(ChildOf(node, Head(path)), Tail(path))

IsPrefix(p, q) == Len(p) <= Len(q) /\ SubSeq(q, 1, Len(p)) = p
IsProperPrefix(p, q) == Len(p) < Len(q) /\ SubSeq(q, 1, Len(p)) = p
Parent(path) == SubSeq(path, 1, Len(path) - 1)
Last(path) == path[Len(path)]

\* the entry of the log is a statement of a statement sequence (of the Program
\* or of a block): its last step is a statement index
IsSeqStatement(entry) == Len(entry.path) >= 1 /\ Last(entry.path) >= 1

\* what the statement sequence at `path` returned: the Program's is the result
ResultAt(path) ==
    IF path = <<>> THEN result
    ELSE LET hits == {j \in 1..Len(log) : log[j].path = path}
         IN  IF hits = {} THEN NoResult ELSE log[CHOOSE j \in hits : TRUE].res

Evaluated(path) == \E j \in 1..Len(log) : log[j].path = path

IsOkReturn(r) == IsOk(r) /\ IsReturnValue(r.obj)

(***************************************************************************)
(* C1.  An evaluation error is fatal to the rest of the Program or block:  *)
(* when statement k yields an error, the Program (or block) yields that    *)
(* error and no statement after k is evaluated.                            *)
(***************************************************************************)
C1_ErrorIsFatal ==
    phase = "done" =>
        \A i \in 1..Len(log) :
            (IsSeqStatement(log[i]) /\ IsErr(log[i].res)) =>
                /\ ResultAt(Parent(log[i].path)) = log[i].res
                /\ \A j \in 1..Len(log) :
                       (IsSeqStatement(log[j]) /\ Parent(log[j].path) = Parent(log[i].path))
                           => Last(log[j].path) <= Last(log[i].path)

(***************************************************************************)
(* C2.  A Program evaluates its statements in order; the first statement   *)
(* whose result is a ReturnValue ends it with the wrapped value and no     *)
(* later statement is evaluated; when no statement returns, every          *)
(* statement is evaluated and the result is the last statement's.          *)
(***************************************************************************)
TopEntries == SelectSeq(log, LAMBDA en : Len(en.path) = 1)

C2_ProgramOrderAndReturn ==
    phase = "done" =>
        LET top == TopEntries
            n == Len(program.statements)
        IN  /\ Len(top) <= n
            /\ \A k \in 1..Len(top) : top[k].path = <<k>>
            /\ \A k \in 1..Len(top) :
                   IsOkReturn(top[k].res) =>
                       /\ k = Len(top)
                       /\ result = Ok(top[k].res.obj.boxed)
            /\ (\A k \in 1..Len(top) : ~IsOkReturn(top[k].res)) =>
                   /\ Len(top) = n
                   /\ n >= 1 => result = top[n].res

\* a program of three statements whose second one returns
C2_Witness ==
    /\ phase = "done"
    /\ Len(program.statements) = 3
    /\ Len(TopEntries) = 2
    /\ IsOkReturn(TopEntries[2].res)
    /\ result = Ok(IntegerObj(2))

\* a program in which nothing returns, ending in its last statement's value
C2_WitnessNoReturn ==
    /\ phase = "done"
    /\ Len(program.statements) = 3
    /\ Len(TopEntries) = 3
    /\ IsErr(TopEntries[1].res)
    /\ \A k \in 1..3 : ~IsOkReturn(TopEntries[k].res)
    /\ result = Ok(IntegerObj(1))

(***************************************************************************)
(* C3.  A return statement reached through blocks and if-branches only     *)
(* stops every enclosing block: every call that returns after it is one of *)
(* its ancestors, each block and if-expression among them hands the same   *)
(* ReturnValue upward, and the Program yields the returned value.          *)
(***************************************************************************)
\* every step of the path goes from a Program or block to one of its statements,
\* from an expression statement to its if-expression, or from an if-expression
\* to one of its branches
RECURSIVE PureNesting(_, _)
PureNesting(node, path) ==
    IF path = <<>> THEN TRUE
    ELSE LET c == Head(path)
             ok == CASE node.node \in {"Program", "BlockStatement"} -> TRUE
                     [] node.node = "ExpressionStatement" ->
                           node.expression.node = "IfExpression"
                     [] node.node = "IfExpression" -> c \in {Cons, Alt}
                     [] OTHER -> FALSE
         IN  ok /\ PureNesting(ChildOf(node, c), Tail(path))

IsEscapingReturn(i) ==
    /\ NodeAt(program, log[i].path).node = "ReturnStatement"
    /\ IsOk(log[i].res)
    /\ PureNesting(program, log[i].path)

C3_ReturnEscapesNesting ==
    phase = "done" =>
        \A i \in 1..Len(log) :
            IsEscapingReturn(i) =>
                /\ \A j \in (i + 1)..Len(log) :
                       /\ IsProperPrefix(log[j].path, log[i].path)
                       /\ log[j].res = IF log[j].path = <<>>
                                       THEN Ok(log[i].res.obj.boxed)
                                       ELSE log[i].res
                /\ result = Ok(log[i].res.obj.boxed)

\* a return two levels down, inside an if-branch, with a statement after it in an
\* enclosing block and one after it in the Program
C3_Witness ==
    /\ phase = "done"
    /\ Len(program.statements) = 2
    /\ \E i \in 1..Len(log) :
           /\ IsEscapingReturn(i)
           /\ Len(log[i].path) >= 4
           /\ \E k \in 1..(Len(log[i].path) - 1) :
                  /\ log[i].path[k] \in {Cons, Alt}
                  /\ Len(NodeAt(program, SubSeq(log[i].path, 1, k)).statements) = 2

(***************************************************************************)
(* Infix expressions over literal operands: every operator of the          *)
(* evaluator and two it does not know, over Integer, Boolean, String and   *)
(* Null operands (Null is what an if-expression without alternative yields *)
(* on a false condition).                                                  *)
(***************************************************************************)
InfixOperators == {"+", "-", "*", "/", "%", "=", "!=", ">", ">=", "<", "<=", "&", "|"}

NullExpression ==
    IfExpression(BooleanLiteral(FALSE),
                 BlockStatement(<<ExpressionStatement(IntegerLiteral(1))>>), <<>>)

\* an if-block that returns: the operand evaluates to a ReturnValue
ReturnExpression ==
    IfExpression(BooleanLiteral(TRUE),
                 BlockStatement(<<ReturnStatement(IntegerLiteral(1))>>), <<>>)

\* 0.0, 1.0, 1.5, -1.5, NaN (0.0 / 0.0) and infinity (1.0 / 0.0)
FloatOperands ==
    {FloatLiteral(0, 0), FloatLiteral(1, 0), FloatLiteral(15, 1),
     PrefixExpression("-", FloatLiteral(15, 1)),
     InfixExpression(FloatLiteral(0, 0), "/", FloatLiteral(0, 0)),
     InfixExpression(FloatLiteral(1, 0), "/", FloatLiteral(0, 0))}

Operands ==
    {IntegerLiteral(n) : n \in (-MaxInt)..MaxInt}
        \cup FloatOperands
        \cup {BooleanLiteral(b) : b \in BOOLEAN}
        \cup {StringLiteral(""), StringLiteral("s"), NullExpression, ReturnExpression}

InfixPrograms ==
    {Program(<<ExpressionStatement(InfixExpression(l, op, r))>>) :
        l \in Operands, op \in InfixOperators, r \in Operands}

InitInfix ==
    /\ ReplIdle
    /\ VectorIdle
    /\ program \in InfixPrograms
    /\ env = EmptyEnv
    /\ result = NoResult
    /\ log = <<>>
    /\ phase = "ready"
    /\ ParserIdle
    /\ LexerIdle
    /\ PrintIdle

SpecInfix == InitInfix /\ [][NextEval]_vars

TheInfix == program.statements[1].expression

(***************************************************************************)
(* C4.  Dividing an Integer by the Integer zero yields an evaluation error *)
(* for every left operand; it never aborts the process.                    *)
(***************************************************************************)
IsDivisionByZero ==
    /\ TheInfix.operator = "/"
    /\ TheInfix.left.node = "IntegerLiteral"
    /\ TheInfix.right = IntegerLiteral(0)

C4_DivisionByZeroIsErr ==
    (phase # "ready" /\ IsDivisionByZero) => (phase = "done" /\ IsErr(result))

(***************************************************************************)
(* Tokens.  A literal is the sequence of its units: the clusters of an     *)
(* identifier, an operator or a string, the characters of a number.        *)
(***************************************************************************)
Token(t, lit) == [type |-> t, literal |-> lit]
StartToken == Token("Start", <<>>)

RECURSIVE Str(_)
Str(lit) == IF lit = <<>> THEN "" ELSE Head(lit) \o Str(Tail(lit))

(***************************************************************************)
(* StatefulVector: a vector and a cursor.                                  *)
(***************************************************************************)
is_pos_valid(vector, pos) == IF vector = <<>> THEN FALSE ELSE pos < Len(vector)
has_next(vector, pos) == is_pos_valid(vector, pos + 1)
\* the position after to_next(): moved only when there is a next element
to_next(vector, pos) == IF has_next(vector, pos) THEN pos + 1 ELSE pos
\* current(): the caller unwraps it, the position is valid
current(vector, pos) == vector[pos + 1]

(***************************************************************************)
(* The parser.  Its only state besides the error list is the cursor, so    *)
(* every parse function is an operator from the position it is called at   *)
(* to its outcome and the position it leaves the cursor at:                *)
(*   Ok      the node it built                                             *)
(*   Err     the message it returned                                       *)
(*   Panic   an unwrap of None                                             *)
(*   Diverge a call that never returns: a loop whose state repeats, or a   *)
(*           recursive call equal to one still running (active holds     *)
(*           the calls of parse_expression and parse_block_statement that  *)
(*           are running)                                                  *)
(***************************************************************************)
Precedence ==
    [Lowest |-> 0, Or |-> 1, And |-> 2, Equals |-> 3, LessGreater |-> 4,
     Sum |-> 5, Product |-> 6, Prefix |-> 7, Call |-> 8]

get_operator_precedence(token) ==
    CASE token.type \in {"Equal", "NotEqual"} -> Precedence.Equals
      [] token.type \in {"LessThan", "LessThanOrEqual", "GreaterThan", "GreaterThanOrEqual"}
            -> Precedence.LessGreater
      [] token.type \in {"Plus", "Minus"} -> Precedence.Sum
      [] token.type \in {"Multiply", "Divide", "Modulo"} -> Precedence.Product
      [] OTHER -> Precedence.Lowest

prefix_exp_parsers ==
    {"Identifier", "Integer", "Float", "True", "False", "String", "Not", "Minus",
     "If", "Function", "LParenthesis"}

infix_exp_parsers ==
    {"Or", "And", "Equal", "NotEqual", "LessThan", "LessThanOrEqual", "GreaterThan",
     "GreaterThanOrEqual", "Plus", "Minus", "Multiply", "Divide", "Modulo"}

POk(n, p) == [kind |-> "Ok", node |-> n, pos |-> p]
PErr(m, p) == [kind |-> "Err", msg |-> m, pos |-> p]
PPanic(p) == [kind |-> "Panic", msg |-> "called Option::unwrap() on a None value", pos |-> p]
PDiverge(p) == [kind |-> "Diverge", msg |-> "never returns", pos |-> p]

Cur(p) == current(tokens, p)
HasNext(p) == has_next(tokens, p)
ToNext(p) == to_next(tokens, p)
\* is_next_match with the predicate "the next token's type is in types"
NextIn(p, types) == HasNext(p) /\ tokens[p + 2].type \in types
\* is_next_match with the predicate "the next token's type is not t"
NextIsNot(p, t) == HasNext(p) /\ tokens[p + 2].type # t

\* while is_next_match(Semicolon) { to_next() }
RECURSIVE SkipSemicolons(_)
SkipSemicolons(p) == IF NextIn(p, {"Semicolon"}) THEN SkipSemicolons(p + 1) ELSE p

\* str::parse::<i64> of a literal made of digits
DigitValue(c) ==
    CASE c = "0" -> 0 [] c = "1" -> 1 [] c = "2" -> 2 [] c = "3" -> 3 [] c = "4" -> 4
      [] c = "5" -> 5 [] c = "6" -> 6 [] c = "7" -> 7 [] c = "8" -> 8 [] c = "9" -> 9
RECURSIVE DigitsValue(_, _)
DigitsValue(lit, acc) ==
    IF lit = <<>> THEN acc ELSE DigitsValue(Tail(lit), 10 * acc + DigitValue(Head(lit)))

parse_identifier(p) == POk(Identifier(Str(Cur(p).literal)), p)
parse_integer_literal(p) == POk(IntegerLiteral(DigitsValue(Cur(p).literal, 0)), p)
\* a float is kept as the decimal it was written as: mant / 10^scale
RECURSIVE Normal(_, _)
Normal(m, sc) == IF sc > 0 /\ m % 10 = 0 THEN Normal(m \div 10, sc - 1) ELSE FloatLiteral(m, sc)
Dots(lit) == {i \in 1..Len(lit) : lit[i] = "."}
\* str::parse::<f64>: digits, then one dot, then digits or nothing
parse_float_literal(p) ==
    LET lit == Cur(p).literal
    IN  IF Cardinality(Dots(lit)) # 1 THEN PErr("invalid float literal", p)
        ELSE LET d == CHOOSE i \in Dots(lit) : TRUE
                 digits == SubSeq(lit, 1, d - 1) \o SubSeq(lit, d + 1, Len(lit))
             IN  POk(Normal(DigitsValue(digits, 0), Len(lit) - d), p)
parse_bool_literal(p) == POk(BooleanLiteral(Cur(p).type = "True"), p)
parse_string_literal(p) == POk(StringLiteral(Str(Cur(p).literal)), p)

\* a call of a parse function from inside another one: the grammar is
\* recursive, so these calls go through one recursive operator
RECURSIVE call(_, _, _, _)
RECURSIVE block_loop(_, _, _)
RECURSIVE infix_loop(_, _, _, _)
RECURSIVE parameter_loop(_, _)

parse_expression_statement(p, active) ==
    LET exp == call("parse_expression", p, Precedence.Lowest, active)
    IN  IF exp.kind # "Ok" THEN exp
        ELSE POk(ExpressionStatement(exp.node), SkipSemicolons(exp.pos))

parse_assign_statement(p, active) ==
    IF NextIsNot(p, "Assign") THEN parse_expression_statement(p, active)
    ELSE IF ~HasNext(p) THEN PPanic(p)          \* self.tokens.to_next().unwrap()
    ELSE LET name == Str(Cur(p).literal)
             value == call("parse_expression", ToNext(p + 1), Precedence.Lowest, active)
         IN  IF value.kind # "Ok" THEN value
             ELSE POk(AssignStatement(name, value.node), SkipSemicolons(value.pos))

parse_return_statement(p, active) ==
    LET value == call("parse_expression", ToNext(p), Precedence.Lowest, active)
    IN  IF value.kind # "Ok" THEN value
        ELSE POk(ReturnStatement(value.node), SkipSemicolons(value.pos))

\* while current() is not RBrace { stmt = parse_statement()?; push; to_next() }
\* start is the position the iteration begins at
block_loop(p, stmts, active) ==
    IF Cur(p).type = "RBrace" THEN POk(BlockStatement(stmts), p)
    ELSE LET stmt == call("parse_statement", p, 0, active)
         IN  IF stmt.kind # "Ok" THEN stmt
             ELSE IF ToNext(stmt.pos) = p THEN PDiverge(p)
             ELSE block_loop(ToNext(stmt.pos), Append(stmts, stmt.node), active)

parse_block_statement(p, active) ==
    LET this == <<"parse_block_statement", p, 0>>
    IN  IF this \in active THEN PDiverge(p)
        ELSE block_loop(ToNext(p), <<>>, active \cup {this})

parse_statement(p, active) ==
    CASE Cur(p).type = "Identifier" -> parse_assign_statement(p, active)
      [] Cur(p).type = "Return" -> parse_return_statement(p, active)
      [] Cur(p).type = "LBrace" -> parse_block_statement(p, active)
      [] OTHER -> parse_expression_statement(p, active)

parse_prefix_expression(p, active) ==
    LET operator == Str(Cur(p).literal)
    IN  IF HasNext(p)
        THEN LET right == call("parse_expression", p + 1, Precedence.Prefix, active)
             IN  IF right.kind # "Ok" THEN right
                 ELSE POk(PrefixExpression(operator, right.node), right.pos)
        ELSE PErr("Expected a expression after operator " \o operator, p)

parse_infix_expression(p, left, active) ==
    LET operator == Str(Cur(p).literal)
        precedence == get_operator_precedence(Cur(p))
        right == call("parse_expression", ToNext(p), precedence, active)
    IN  IF right.kind # "Ok" THEN right
        ELSE POk(InfixExpression(left, operator, right.node), right.pos)

parse_group_expression(p, active) ==
    LET exp == call("parse_expression", ToNext(p), Precedence.Lowest, active)
    IN  IF exp.kind # "Ok" THEN exp
        ELSE IF NextIsNot(exp.pos, "RParenthesis")
        THEN PErr("Expected a right parenthesis", exp.pos)
        ELSE POk(exp.node, ToNext(exp.pos))

parse_if_expression(p, active) ==
    LET condition == call("parse_expression", ToNext(p), Precedence.Lowest, active)
    IN  IF condition.kind # "Ok" THEN condition
        ELSE IF NextIsNot(condition.pos, "LBrace")
        THEN PErr("Expected a block statement after if-condition", condition.pos)
        ELSE LET consequence == call("parse_block_statement", ToNext(condition.pos), 0, active)
             IN  IF consequence.kind # "Ok" THEN consequence
                 ELSE IF NextIn(consequence.pos, {"Else"})
                 THEN LET q == consequence.pos + 1
                      IN  IF NextIsNot(q, "LBrace")
                          THEN PErr("Expected a block statement after else", q)
                          ELSE LET alternative == call("parse_block_statement", ToNext(q), 0, active)
                               IN  IF alternative.kind # "Ok" THEN alternative
                                   ELSE POk(IfExpression(condition.node, consequence.node,
                                                         <<alternative.node>>),
                                            alternative.pos)
                 ELSE POk(IfExpression(condition.node, consequence.node, <<>>),
                          consequence.pos)

\* while let Some(token) = to_next().filter(not RParenthesis) { ... }
\* yields the parameters in node and the position the loop ends at
parameter_loop(p, parameters) ==
    IF ~HasNext(p) THEN POk(parameters, p)
    ELSE LET q == p + 1
         IN  IF Cur(q).type = "RParenthesis" THEN POk(parameters, q)
             ELSE IF Cur(q).type # "Identifier"
             THEN PErr("Expected a identifier, but got a " \o Str(Cur(q).literal), q)
             ELSE LET more == Append(parameters, Identifier(Str(Cur(q).literal)))
                  IN  IF NextIn(q, {"RParenthesis"}) THEN parameter_loop(q, more)
                      ELSE IF HasNext(q) /\ Cur(q + 1).type # "Comma"
                      THEN PErr("Expected a comma, but got a " \o Str(Cur(q + 1).literal), q + 1)
                      ELSE parameter_loop(ToNext(q), more)

parse_function_literal(p, active) ==
    LET named == NextIn(p, {"Identifier"})
        p1 == IF named THEN p + 1 ELSE p
        name == IF named THEN <<Identifier(Str(Cur(p1).literal))>> ELSE <<>>
    IN  IF NextIsNot(p1, "LParenthesis") THEN PErr("Expected a left parenthesis", p1)
        ELSE LET parameters == parameter_loop(ToNext(p1), <<>>)
             IN  IF parameters.kind # "Ok" THEN parameters
                 ELSE IF NextIsNot(parameters.pos, "LBrace")
                 THEN PErr("Expected a left brace", parameters.pos)
                 ELSE LET body == call("parse_block_statement", ToNext(parameters.pos), 0, active)
                      IN  IF body.kind # "Ok" THEN body
                          ELSE POk(FunctionLiteral(name, parameters.node, body.node),
                                   body.pos)

prefix_parse(p, active) ==
    CASE Cur(p).type = "Identifier" -> parse_identifier(p)
      [] Cur(p).type = "Integer" -> parse_integer_literal(p)
      [] Cur(p).type = "Float" -> parse_float_literal(p)
      [] Cur(p).type \in {"True", "False"} -> parse_bool_literal(p)
      [] Cur(p).type = "String" -> parse_string_literal(p)
      [] Cur(p).type \in {"Not", "Minus"} -> parse_prefix_expression(p, active)
      [] Cur(p).type = "If" -> parse_if_expression(p, active)
      [] Cur(p).type = "Function" -> parse_function_literal(p, active)
      [] Cur(p).type = "LParenthesis" -> parse_group_expression(p, active)

\* while is_next_match(not Semicolon and precedence < its precedence) {
\*   if the token moved to has an infix parser { left = infix(left)? }
\*   else { to_previous() } }
infix_loop(left, p, precedence, active) ==
    IF HasNext(p) /\ Cur(p + 1).type # "Semicolon"
          /\ precedence < get_operator_precedence(Cur(p + 1))
    THEN IF Cur(p + 1).type \in infix_exp_parsers
         THEN LET next == parse_infix_expression(p + 1, left, active)
              IN  IF next.kind # "Ok" THEN next
                  ELSE infix_loop(next.node, next.pos, precedence, active)
         ELSE PDiverge(p)
    ELSE POk(left, p)

parse_expression(p, precedence, active) ==
    LET this == <<"parse_expression", p, precedence>>
    IN  IF this \in active THEN PDiverge(p)
        ELSE IF Cur(p).type \notin prefix_exp_parsers
        THEN PErr("Expected a expression, but got a " \o Str(Cur(p).literal), p)
        ELSE LET left == prefix_parse(p, active \cup {this})
             IN  IF left.kind # "Ok" THEN left
                 ELSE infix_loop(left.node, left.pos, precedence, active \cup {this})

call(fn, p, precedence, active) ==
    CASE fn = "parse_expression" -> parse_expression(p, precedence, active)
      [] fn = "parse_statement" -> parse_statement(p, active)
      [] fn = "parse_block_statement" -> parse_block_statement(p, active)

(***************************************************************************)
(* parse_program as a state machine: one step per iteration of its loop.   *)
(* plog records, for every statement parse, the position it started at,    *)
(* how it ended and the statement it built.                                *)
(***************************************************************************)
Tok ==
    [Identifier |-> Token("Identifier", <<"a">>), Integer |-> Token("Integer", <<"1">>),
     Not |-> Token("Not", <<"~">>), Minus |-> Token("Minus", <<"-">>),
     Plus |-> Token("Plus", <<"+">>), Multiply |-> Token("Multiply", <<"*">>),
     Divide |-> Token("Divide", <<"/">>), Modulo |-> Token("Modulo", <<"%">>),
     Equal |-> Token("Equal", <<"=">>), NotEqual |-> Token("NotEqual", <<"!", "=">>),
     LessThan |-> Token("LessThan", <<"<">>),
     LessThanOrEqual |-> Token("LessThanOrEqual", <<"<", "=">>),
     GreaterThan |-> Token("GreaterThan", <<">">>),
     GreaterThanOrEqual |-> Token("GreaterThanOrEqual", <<">", "=">>),
     And |-> Token("And", <<"&">>), Or |-> Token("Or", <<"|">>),
     Assign |-> Token("Assign", <<"<-">>), Semicolon |-> Token("Semicolon", <<";">>),
     LParenthesis |-> Token("LParenthesis", <<"(">>),
     RParenthesis |-> Token("RParenthesis", <<")">>),
     LBrace |-> Token("LBrace", <<"{">>), RBrace |-> Token("RBrace", <<"}">>),
     If |-> Token("If", <<"if">>), Else |-> Token("Else", <<"!">>),
     Function |-> Token("Function", <<"fn">>), Comma |-> Token("Comma", <<",">>),
     Return |-> Token("Return", <<"return">>)]

TokenAlphabet ==
    {Tok.Identifier, Tok.Integer, Tok.Not, Tok.Minus, Tok.Plus, Tok.Multiply, Tok.Or,
     Tok.Assign, Tok.Semicolon, Tok.LParenthesis, Tok.RParenthesis, Tok.LBrace,
     Tok.RBrace, Tok.If, Tok.Else, Tok.Function, Tok.Comma, Tok.Return}

RECURSIVE TokenSeqs(_)
TokenSeqs(n) ==
    IF n = 0 THEN {<<>>}
    ELSE TokenSeqs(n - 1)
            \cup {Append(q, t) : q \in {x \in TokenSeqs(n - 1) : Len(x) = n - 1},
                                 t \in TokenAlphabet}

BinaryOperatorTokens ==
    {Tok.Or, Tok.And, Tok.Equal, Tok.NotEqual, Tok.LessThan, Tok.LessThanOrEqual,
     Tok.GreaterThan, Tok.GreaterThanOrEqual, Tok.Plus, Tok.Minus, Tok.Multiply,
     Tok.Divide, Tok.Modulo}

Ident(n) == Token("Identifier", <<n>>)

\* a op1 b op2 c
OperatorInputs ==
    {<<StartToken, Ident("a"), op1, Ident("b"), op2, Ident("c")>> :
        op1 \in BinaryOperatorTokens, op2 \in BinaryOperatorTokens}

\* prefix-op a op b
PrefixInputs ==
    {<<StartToken, pre, Ident("a"), op, Ident("b")>> :
        pre \in {Tok.Not, Tok.Minus}, op \in BinaryOperatorTokens}

\* what tokenize() hands to the parser: the Start token, then the tokens
TokenInputs ==
    {<<StartToken>> \o q : q \in TokenSeqs(MaxTokens)} \cup OperatorInputs \cup PrefixInputs

EvaluatorIdle ==
    /\ program = Program(<<>>)
    /\ env = EmptyEnv
    /\ result = NoResult
    /\ log = <<>>
    /\ phase = "idle"

InitParse ==
    /\ ReplIdle
    /\ VectorIdle
    /\ tokens \in TokenInputs
    /\ position = 0
    /\ errors = <<>>
    /\ pstatements = <<>>
    /\ plog = <<>>
    /\ pphase = "parsing"
    /\ EvaluatorIdle
    /\ LexerIdle
    /\ PrintIdle

ParseStatementStep ==
    /\ pphase = "parsing"
    /\ HasNext(position)
    /\ LET statement == call("parse_statement", position + 1, 0, {})
       IN  /\ plog' = Append(plog, [start |-> position + 1, outcome |-> statement.kind,
                                    stmt |-> IF statement.kind = "Ok"
                                             THEN <<statement.node>> ELSE <<>>])
           /\ position' = statement.pos
           /\ pstatements' = IF statement.kind = "Ok"
                             THEN Append(pstatements, statement.node) ELSE pstatements
           /\ errors' = IF statement.kind = "Err"
                        THEN Append(errors, statement.msg) ELSE errors
           /\ pphase' = CASE statement.kind = "Panic" -> "panicked"
                          [] statement.kind = "Diverge" -> "diverged"
                          [] OTHER -> "parsing"
    /\ UNCHANGED <<tokens, evalVars, lexVars, printVars, scopeVars, replVars, vecVars>>

ParseProgramReturn ==
    /\ pphase = "parsing"
    /\ ~HasNext(position)
    /\ pphase' = "done"
    /\ UNCHANGED <<tokens, position, errors, pstatements, plog, evalVars, lexVars, printVars, scopeVars, replVars, vecVars>>

NextParse == ParseStatementStep \/ ParseProgramReturn

SpecParse == InitParse /\ [][NextParse]_vars

(***************************************************************************)
(* Claims about the parser                                                 *)
(***************************************************************************)
TypesOf(toks) == [i \in 1..Len(toks) |-> toks[i].type]
InputIs(types) == TypesOf(tokens) = <<"Start">> \o types

\* C5: parse_program never fails fatally: whatever the token sequence, no
\* parse step panics on an absent token.
C5_ParseNeverPanics == pphase # "panicked"

\* the input the panic happens on: an identifier as the last token
C5_IdentifierLast == InputIs(<<"Identifier">>) /\ pphase = "panicked"

\* C6: parse_program terminates on every finite token sequence: no parse
\* step enters a loop or a recursion in which the cursor cannot advance.
C6_ParseTerminates == pphase # "diverged"

C6_MissingRBrace == InputIs(<<"LBrace", "Integer">>) /\ pphase = "diverged"
C6_AfterLParenthesis == InputIs(<<"LParenthesis">>) /\ pphase = "diverged"
C6_AfterIf == InputIs(<<"If">>) /\ pphase = "diverged"

\* the tokens after position i (1-based index into tokens)
After(i) == {j \in (i + 1)..Len(tokens) : TRUE}
MissingRequiredToken ==
    \E i \in 2..Len(tokens) :
        \/ /\ tokens[i].type = "LParenthesis"
           /\ \A j \in After(i) : tokens[j].type # "RParenthesis"
        \/ /\ tokens[i].type = "If"
           /\ \A j \in After(i) : tokens[j].type # "LBrace"
        \/ /\ tokens[i].type = "Else"
           /\ (i = Len(tokens) \/ tokens[i + 1].type # "LBrace")
        \/ /\ tokens[i].type = "Function"
           /\ \/ \A j \in After(i) : tokens[j].type # "LParenthesis"
              \/ \A j \in After(i) : tokens[j].type # "LBrace"

\* C7: a parse that needs a specific following token and does not find it,
\* the end of the input included, returns a parse error: when parse_program
\* returns on an input in which a left parenthesis has no right parenthesis
\* after it, an if or a function literal has no left brace after it, a
\* function literal has no left parenthesis after it, or an else is not
\* followed by a left brace, the error list is not empty.
C7_RequiredTokenEnforced == (pphase = "done" /\ MissingRequiredToken) => errors # <<>>

\* ( 1 is accepted as the expression statement 1
C7_GroupAccepted ==
    /\ InputIs(<<"LParenthesis", "Integer">>)
    /\ pphase = "done"
    /\ errors = <<>>
    /\ pstatements = <<ExpressionStatement(IntegerLiteral(1))>>

\* the precedence order of the language: Or < And < Equals < Comparison <
\* Sum < Product
Level(type) ==
    CASE type = "Or" -> 1
      [] type = "And" -> 2
      [] type \in {"Equal", "NotEqual"} -> 3
      [] type \in {"LessThan", "LessThanOrEqual", "GreaterThan", "GreaterThanOrEqual"} -> 4
      [] type \in {"Plus", "Minus"} -> 5
      [] type \in {"Multiply", "Divide", "Modulo"} -> 6

IsOperatorInput == tokens \in OperatorInputs
Grouped(a, op1, b, op2, c) ==
    IF Level(op2.type) > Level(op1.type)
    THEN InfixExpression(a, Str(op1.literal), InfixExpression(b, Str(op2.literal), c))
    ELSE InfixExpression(InfixExpression(a, Str(op1.literal), b), Str(op2.literal), c)

\* C9: a op1 b op2 c is parsed as one expression statement, a op1 (b op2 c)
\* when op2 binds strictly tighter than op1 and (a op1 b) op2 c otherwise,
\* for all binary operators, logical-or and logical-and included.
C9_PrecedenceGrouping ==
    (pphase = "done" /\ IsOperatorInput) =>
        /\ errors = <<>>
        /\ pstatements = <<ExpressionStatement(
                Grouped(Identifier("a"), tokens[3], Identifier("b"), tokens[5],
                        Identifier("c")))>>

\* a | b + c: the statement a, an error at |, the statement b + c
C9_OrSplitsStatement ==
    /\ InputIs(<<"Identifier", "Or", "Identifier", "Plus", "Identifier">>)
    /\ pphase = "done"
    /\ Len(errors) = 1
    /\ pstatements = <<ExpressionStatement(Identifier("a")),
                       ExpressionStatement(InfixExpression(Identifier("b"), "+",
                                                           Identifier("c")))>>

\* the same property for the operators that have an entry in the
\* precedence table
C9_TableOperatorsGrouping ==
    (pphase = "done" /\ IsOperatorInput /\ tokens[3].type \notin {"Or", "And"}
        /\ tokens[5].type \notin {"Or", "And"}) => C9_PrecedenceGrouping

\* C10: a statement that starts with an Identifier is parsed as an
\* AssignStatement when the next token is Assign and as an
\* ExpressionStatement otherwise; an identifier that is the last token of
\* the input is parsed as the ExpressionStatement of that identifier.
C10_IdentifierStatement ==
    \A k \in 1..Len(plog) :
        LET p == plog[k].start
        IN  Cur(p).type = "Identifier" =>
                /\ plog[k].outcome = "Ok" =>
                        (plog[k].stmt[1].node = "AssignStatement") = NextIn(p, {"Assign"})
                /\ ~HasNext(p) =>
                        /\ plog[k].outcome = "Ok"
                        /\ plog[k].stmt =
                              <<ExpressionStatement(Identifier(Str(Cur(p).literal)))>>

\* the part of C10 about identifiers that are not the last token
C10_IdentifierNotLast ==
    \A k \in 1..Len(plog) :
        LET p == plog[k].start
        IN  (Cur(p).type = "Identifier" /\ plog[k].outcome = "Ok") =>
                /\ HasNext(p)
                /\ plog[k].stmt[1].node \in {"AssignStatement", "ExpressionStatement"}
                /\ (plog[k].stmt[1].node = "AssignStatement") = NextIn(p, {"Assign"})

C10_AssignParsed ==
    /\ InputIs(<<"Identifier", "Assign", "Integer">>)
    /\ pstatements = <<AssignStatement("a", IntegerLiteral(1))>>

(***************************************************************************)
(* The lexer.  chars holds one string per grapheme cluster.                *)
(***************************************************************************)
StringOpen == "'"
StringClose == "^"

RESERVED_SYMBOLS ==
    {"<-", "+", "-", "*", "/", "%", "=", ">", "<", "&", "|", "~", ";", ",", "(", ")",
     "[", "]", "{", "}", StringOpen, StringClose, "true", "false", "if", "!", "while",
     "fn", "return"}
DIGITALS == {"0", "1", "2", "3", "4", "5", "6", "7", "8", "9"}
\* two of the nine dot clusters
DOTS == {".", "o"}
SPACES == {" "}

\* is_identifier_char with a fault: the dot clusters are not excluded
is_identifier_char_dots(char) ==
    /\ char \notin RESERVED_SYMBOLS
    /\ char \notin DIGITALS
    /\ char \notin SPACES

is_identifier_char(char) ==
    /\ char \notin RESERVED_SYMBOLS
    /\ char \notin DIGITALS
    /\ char \notin DOTS
    /\ char \notin SPACES

\* the arms of tokenize's match that build a token from the cluster alone
SingleTokenType ==
    [c \in {"<-", "+", "-", "*", "/", "%", "=", "&", "|", "~", ";", "true", "false",
            "if", "while", "fn", "return", ",", "(", ")", "[", "]", "{", "}"} |->
        CASE c = "<-" -> "Assign" [] c = "+" -> "Plus" [] c = "-" -> "Minus"
          [] c = "*" -> "Multiply" [] c = "/" -> "Divide" [] c = "%" -> "Modulo"
          [] c = "=" -> "Equal" [] c = "&" -> "And" [] c = "|" -> "Or"
          [] c = "~" -> "Not" [] c = ";" -> "Semicolon" [] c = "true" -> "True"
          [] c = "false" -> "False" [] c = "if" -> "If" [] c = "while" -> "While"
          [] c = "fn" -> "Function" [] c = "return" -> "Return" [] c = "," -> "Comma"
          [] c = "(" -> "LParenthesis" [] c = ")" -> "RParenthesis"
          [] c = "[" -> "LBracket" [] c = "]" -> "RBracket"
          [] c = "{" -> "LBrace" [] c = "}" -> "RBrace"]

\* what a handler returns: the token, and the position it leaves the cursor at
Lexed(tok, p) == [token |-> tok, pos |-> p]

NextCharIn(p, set) == has_next(chars, p) /\ chars[p + 2] \in set

\* handle_two_chars_token with a fault: the cursor stays on the first cluster
handle_two_chars_token_stay(p, single_char_token_type, expected_next_char, two_chars_token_type) ==
    IF NextCharIn(p, {expected_next_char})
    THEN Lexed(Token(two_chars_token_type, <<current(chars, p), chars[p + 2]>>), p)
    ELSE Lexed(Token(single_char_token_type, <<current(chars, p)>>), p)

handle_two_chars_token(p, single_char_token_type, expected_next_char, two_chars_token_type) ==
    IF NextCharIn(p, {expected_next_char})
    THEN Lexed(Token(two_chars_token_type, <<current(chars, p), chars[p + 2]>>), p + 1)
    ELSE Lexed(Token(single_char_token_type, <<current(chars, p)>>), p)

\* while to_next() is some cluster other than the string-close { push it }
RECURSIVE string_loop(_, _)
string_loop(p, literal) ==
    IF has_next(chars, p)
    THEN IF chars[p + 2] # StringClose
         THEN string_loop(p + 1, Append(literal, chars[p + 2]))
         ELSE Lexed(Token("String", literal), p + 1)
    ELSE Lexed(Token("String", literal), p)

handle_string(p) == string_loop(p, <<>>)

RECURSIVE number_loop(_, _, _)
number_loop(p, token_type, literal) ==
    IF NextCharIn(p, DIGITALS)
    THEN number_loop(p + 1, token_type, Append(literal, chars[p + 2]))
    ELSE IF NextCharIn(p, DOTS)
    THEN number_loop(p + 1, "Float", Append(literal, "."))
    ELSE Lexed(Token(token_type, literal), p)

handle_number(p) == number_loop(p, "Integer", <<current(chars, p)>>)

RECURSIVE identifier_loop(_, _)
\* identifier_loop with a fault: no cluster after the first is taken
identifier_loop_single(p, literal) == Lexed(Token("Identifier", literal), p)

identifier_loop(p, literal) ==
    IF has_next(chars, p) /\ is_identifier_char(chars[p + 2])
    THEN identifier_loop(p + 1, Append(literal, chars[p + 2]))
    ELSE Lexed(Token("Identifier", literal), p)

handle_identifier(p) == identifier_loop(p, <<current(chars, p)>>)

\* the match of one iteration of tokenize's loop, the cursor on the cluster
\* at p; no token for a space
scan(p) ==
    LET char == current(chars, p)
    IN  CASE char \in DOMAIN SingleTokenType ->
                Lexed(<<Token(SingleTokenType[char], <<char>>)>>, p)
          [] char = ">" ->
                LET h == handle_two_chars_token(p, "GreaterThan", "=", "GreaterThanOrEqual")
                IN  Lexed(<<h.token>>, h.pos)
          [] char = "<" ->
                LET h == handle_two_chars_token(p, "LessThan", "=", "LessThanOrEqual")
                IN  Lexed(<<h.token>>, h.pos)
          [] char = "!" ->
                LET h == handle_two_chars_token(p, "Else", "=", "NotEqual")
                IN  Lexed(<<h.token>>, h.pos)
          [] char = StringOpen ->
                LET h == handle_string(p) IN Lexed(<<h.token>>, h.pos)
          [] char \in DIGITALS ->
                LET h == handle_number(p) IN Lexed(<<h.token>>, h.pos)
          [] char \in SPACES -> Lexed(<<>>, p)
          [] is_identifier_char(char) ->
                LET h == handle_identifier(p) IN Lexed(<<h.token>>, h.pos)
          [] OTHER -> Lexed(<<Token("Illegal", <<char>>)>>, p)

CharAlphabet ==
    {"a", "b", "1", ".", "o", " ", StringOpen, StringClose, ">", "<", "!", "=", "+"}

RECURSIVE CharSeqs(_)
CharSeqs(n) ==
    IF n = 0 THEN {<<>>}
    ELSE CharSeqs(n - 1)
            \cup {Append(q, c) : q \in {x \in CharSeqs(n - 1) : Len(x) = n - 1},
                                 c \in CharAlphabet}

\* Lexer::new(input)
InitLex ==
    /\ ReplIdle
    /\ VectorIdle
    /\ chars \in CharSeqs(MaxChars)
    /\ cposition = 0
    /\ lexed = <<>>
    /\ lphase = "new"
    /\ EvaluatorIdle
    /\ ParserIdle
    /\ PrintIdle

\* tokenize(), up to its loop
TokenizeStart ==
    /\ lphase = "new"
    /\ lexed' = <<StartToken>>
    /\ chars' = <<" ">> \o chars
    /\ lphase' = "scanning"
    /\ UNCHANGED <<cposition, evalVars, parseVars, printVars, scopeVars, replVars, vecVars>>

\* one iteration of tokenize's loop
TokenizeStep ==
    /\ lphase = "scanning"
    /\ has_next(chars, cposition)
    /\ LET s == scan(cposition + 1)
       IN  /\ lexed' = lexed \o s.token
           /\ cposition' = s.pos
    /\ UNCHANGED <<chars, lphase, evalVars, parseVars, printVars, scopeVars, replVars, vecVars>>

\* the loop ends, tokenize returns the tokens
TokenizeReturn ==
    /\ lphase = "scanning"
    /\ ~has_next(chars, cposition)
    /\ lphase' = "done"
    /\ UNCHANGED <<chars, cposition, lexed, evalVars, parseVars, printVars, scopeVars, replVars, vecVars>>

NextLex == TokenizeStart \/ TokenizeStep \/ TokenizeReturn

SpecLex == InitLex /\ [][NextLex]_vars

\* the input holds a string-open with no string-close after it
UnterminatedString ==
    \E i \in 1..Len(chars) :
        /\ chars[i] = StringOpen
        /\ \A j \in (i + 1)..Len(chars) : chars[j] # StringClose

\* C8: when the input ends inside a string, tokenizing reports an error: the
\* tokens it returns do not end with an ordinary String token holding the
\* unterminated text.
C8_UnterminatedStringReported ==
    (lphase = "done" /\ UnterminatedString) => lexed[Len(lexed)].type # "String"

\* 'a is tokenized as the String token a
C8_StringTokenReturned ==
    /\ chars = <<" ", StringOpen, "a">>
    /\ lphase = "done"
    /\ lexed = <<StartToken, Token("String", <<"a">>)>>

\* a terminated string: 'a^ is the String token a
C8_TerminatedString ==
    /\ chars = <<" ", StringOpen, "a", StringClose>>
    /\ lphase = "done"
    /\ lexed = <<StartToken, Token("String", <<"a">>)>>

(***************************************************************************)
(* string(): the text of a node, as the sequence of its grapheme clusters. *)
(***************************************************************************)
\* the clusters of a literal the model holds as one string: the two-cluster
\* operators, the empty text, or a single cluster
Graphemes(text) ==
    CASE text = "" -> <<>>
      [] text = ">=" -> <<">", "=">>
      [] text = "<=" -> <<"<", "=">>
      [] text = "!=" -> <<"!", "=">>
      [] OTHER -> <<text>>

DigitChar(d) ==
    CASE d = 0 -> "0" [] d = 1 -> "1" [] d = 2 -> "2" [] d = 3 -> "3" [] d = 4 -> "4"
      [] d = 5 -> "5" [] d = 6 -> "6" [] d = 7 -> "7" [] d = 8 -> "8" [] d = 9 -> "9"

\* i64::to_string of a value that is not negative, one keycap cluster for
\* each character
RECURSIVE IntegerText(_)
IntegerText(n) ==
    IF n < 10 THEN <<DigitChar(n)>> ELSE Append(IntegerText(n \div 10), DigitChar(n % 10))


\* the k low decimal digits of n
RECURSIVE FractionText(_, _)
FractionText(n, k) ==
    IF k = 0 THEN <<>> ELSE Append(FractionText(n \div 10, k - 1), DigitChar(n % 10))

\* f64::to_string: a value without a fractional part is written without a
\* dot; the dot becomes the first dot cluster
FloatText(m, sc) ==
    IF sc = 0 THEN IntegerText(m)
    ELSE IntegerText(m \div Pow10(sc)) \o <<".">> \o FractionText(m % Pow10(sc), sc)

RECURSIVE string(_)
RECURSIVE StatementsText(_)
RECURSIVE ParametersText(_)

\* statements.iter().map(|stmt| stmt.string()).collect()
StatementsText(stmts) ==
    IF stmts = <<>> THEN <<>> ELSE string(Head(stmts)) \o StatementsText(Tail(stmts))

\* parameters joined by a comma and a space
ParametersText(parameters) ==
    IF parameters = <<>> THEN <<>>
    ELSE IF Len(parameters) = 1 THEN string(parameters[1])
    ELSE string(parameters[1]) \o <<",", " ">> \o ParametersText(Tail(parameters))

string(n) ==
    CASE n.node = "Program" -> StatementsText(n.statements)
      [] n.node = "AssignStatement" ->
            string(n.name) \o <<" ", "<-", " ">> \o string(n.value) \o <<" ", ";">>
      [] n.node = "ReturnStatement" -> <<"return", " ">> \o string(n.value) \o <<" ", ";">>
      [] n.node = "ExpressionStatement" -> string(n.expression) \o <<" ", ";">>
      [] n.node = "BlockStatement" ->
            <<"{", " ">> \o StatementsText(n.statements) \o <<" ", "}">>
      [] n.node = "Identifier" -> Graphemes(n.name)
      [] n.node = "IntegerLiteral" -> IntegerText(n.int)
      [] n.node = "FloatLiteral" -> FloatText(n.mant, n.scale)
      [] n.node = "BooleanLiteral" -> IF n.bool THEN <<"true">> ELSE <<"false">>
      [] n.node = "StringLiteral" -> <<StringOpen>> \o Graphemes(n.str) \o <<StringClose>>
      [] n.node = "PrefixExpression" ->
            <<"(">> \o Graphemes(n.operator) \o string(n.right) \o <<")">>
      [] n.node = "InfixExpression" ->
            <<"(">> \o string(n.left) \o <<" ">> \o Graphemes(n.operator) \o <<" ">>
                \o string(n.right) \o <<")">>
      [] n.node = "IfExpression" ->
            <<"if", " ">> \o string(n.condition) \o <<" ">> \o string(n.consequence)
                \o (IF n.alternative = <<>> THEN <<>>
                    ELSE <<" ", "!", " ">> \o string(n.alternative[1]))
      [] n.node = "FunctionLiteral" ->
            <<"fn", " ">>
                \o (IF n.fname = <<>> THEN <<>> ELSE string(n.fname[1]) \o <<" ">>)
                \o <<"(">> \o ParametersText(n.parameters) \o <<")", " ">> \o string(n.body)

(***************************************************************************)
(* Parse, print, parse: a statement of a parsed program is printed with    *)
(* string(), and the text goes through Lexer::new, Parser::new and         *)
(* parse_program again.                                                    *)
(***************************************************************************)
PrintAlphabet ==
    {Tok.Identifier, Tok.Integer, Token("Integer", <<"1", "0">>),
     Token("Float", <<"1", ".", "0">>), Token("Float", <<"1", ".", "5">>),
     Token("Float", <<"0", ".", "0", "5">>), Token("String", <<"a">>),
     Token("True", <<"true">>), Tok.Minus, Tok.Plus, Tok.Assign, Tok.Semicolon,
     Tok.LParenthesis, Tok.RParenthesis, Tok.LBrace, Tok.RBrace, Tok.If, Tok.Return}

RECURSIVE PrintSeqs(_)
PrintSeqs(n) ==
    IF n = 0 THEN {<<>>}
    ELSE PrintSeqs(n - 1)
            \cup {Append(q, t) : q \in {x \in PrintSeqs(n - 1) : Len(x) = n - 1},
                                 t \in PrintAlphabet}

InitPrint ==
    /\ ReplIdle
    /\ VectorIdle
    /\ tokens \in {<<StartToken>> \o q : q \in PrintSeqs(MaxTokens)}
    /\ position = 0
    /\ errors = <<>>
    /\ pstatements = <<>>
    /\ plog = <<>>
    /\ pphase = "parsing"
    /\ round = 1
    /\ first = <<>>
    /\ printed = <<>>
    /\ scope = <<>>
    /\ called = [op |-> "none"]
    /\ EvaluatorIdle
    /\ LexerIdle

\* stmt.string() of one statement of the program, handed to Lexer::new
PrintStatement ==
    /\ round = 1
    /\ pphase = "done"
    /\ \E k \in 1..Len(pstatements) :
        /\ first' = <<pstatements[k]>>
        /\ printed' = string(pstatements[k])
        /\ chars' = string(pstatements[k])
    /\ cposition' = 0
    /\ lexed' = <<>>
    /\ lphase' = "new"
    /\ round' = 2
    /\ tokens' = <<>>
    /\ position' = 0
    /\ errors' = <<>>
    /\ pstatements' = <<>>
    /\ plog' = <<>>
    /\ pphase' = "idle"
    /\ UNCHANGED <<evalVars, scopeVars, replVars, vecVars>>

\* Parser::new(&mut lexer), after tokenize() has returned
ParserNew ==
    /\ lphase = "done"
    /\ pphase = "idle"
    /\ tokens' = lexed
    /\ position' = 0
    /\ errors' = <<>>
    /\ pstatements' = <<>>
    /\ plog' = <<>>
    /\ pphase' = "parsing"
    /\ UNCHANGED <<evalVars, lexVars, printVars, scopeVars, replVars, vecVars>>

NextPrint ==
    \/ ParseStatementStep
    \/ ParseProgramReturn
    \/ PrintStatement
    \/ TokenizeStart
    \/ TokenizeStep
    \/ TokenizeReturn
    \/ ParserNew

SpecPrint == InitPrint /\ [][NextPrint]_vars

Reparsed == round = 2 /\ pphase = "done"

\* C11: parse, print, parse is a round trip: the printed text of a statement
\* that parsed without error parses, without error, to one statement of the
\* same structure, whose string() is the printed text again.
C11_PrintParseRoundTrip ==
    /\ round = 2 => pphase \notin {"panicked", "diverged"}
    /\ Reparsed =>
        /\ errors = <<>>
        /\ pstatements = first
        /\ string(pstatements[1]) = printed

\* 1.0 is printed as 1 and comes back as the IntegerLiteral 1
C11_FloatBecomesInteger ==
    /\ Reparsed
    /\ first = <<ExpressionStatement(FloatLiteral(1, 0))>>
    /\ printed = <<"1", " ", ";">>
    /\ pstatements = <<ExpressionStatement(IntegerLiteral(1))>>

IsWholeFloat(n) == n.node = "FloatLiteral" /\ n.scale = 0
RECURSIVE HasWholeFloat(_)
HasWholeFloat(n) ==
    \/ IsWholeFloat(n)
    \/ n.node \in {"ExpressionStatement"} /\ HasWholeFloat(n.expression)
    \/ n.node \in {"AssignStatement", "ReturnStatement"} /\ HasWholeFloat(n.value)
    \/ n.node = "PrefixExpression" /\ HasWholeFloat(n.right)
    \/ n.node = "InfixExpression" /\ (HasWholeFloat(n.left) \/ HasWholeFloat(n.right))
    \/ n.node = "BlockStatement"
            /\ \E i \in 1..Len(n.statements) : HasWholeFloat(n.statements[i])
    \/ n.node = "IfExpression"
            /\ \/ HasWholeFloat(n.condition)
               \/ HasWholeFloat(n.consequence)
               \/ n.alternative # <<>> /\ HasWholeFloat(n.alternative[1])

\* the round trip of the statements that hold no float without a
\* fractional part
C11_RoundTripWithoutWholeFloat ==
    (round = 2 /\ ~HasWholeFloat(first[1])) => C11_PrintParseRoundTrip

(***************************************************************************)
(* Claims about names                                                      *)
(***************************************************************************)
LogNode(i) == NodeAt(program, log[i].path)
\* entry i is an assign statement to name whose right-hand side evaluated
IsAssignOf(i, name) ==
    /\ LogNode(i).node = "AssignStatement"
    /\ LogNode(i).name.name = name
    /\ i > 1
    /\ log[i - 1].path = log[i].path \o <<0>>
    /\ IsOk(log[i - 1].res)
IsReferenceTo(j, name) == LogNode(j).node = "Identifier" /\ LogNode(j).name = name
Names == {"a", "b"}

\* C12: an assign statement whose right-hand side evaluates to v yields v
\* and binds the name to v: every later reference to the name yields v
\* until the name is assigned again, and the binding is in the environment
\* the run leaves behind.
C12_AssignBindsAndYields ==
    phase = "done" =>
        \A name \in Names : \A i \in 1..Len(log) :
            IsAssignOf(i, name) =>
                LET v == log[i - 1].res
                    latest == \A k \in (i + 1)..Len(log) : ~IsAssignOf(k, name)
                IN  /\ log[i].res = v
                    /\ \A j \in (i + 1)..Len(log) :
                          (IsReferenceTo(j, name)
                              /\ \A k \in (i + 1)..(j - 1) : ~IsAssignOf(k, name))
                                  => log[j].res = v
                    /\ latest => (EnvHas(env, name) /\ env[name] = v.obj)

\* a <- 1, a <- 2, a: the reference yields 2
C12_Witness ==
    /\ phase = "done"
    /\ program = Program(<<AssignStatement("a", IntegerLiteral(1)),
                           AssignStatement("a", IntegerLiteral(2)),
                           ExpressionStatement(Identifier("a"))>>)
    /\ result = Ok(IntegerObj(2))
    /\ env["a"] = IntegerObj(2)

\* C13: a reference to a name that was never assigned in this run yields
\* the error "identifier not found: <name>", never a value.
C13_UnboundIdentifierIsError ==
    \A name \in Names : \A j \in 1..Len(log) :
        (IsReferenceTo(j, name) /\ \A k \in 1..(j - 1) : ~IsAssignOf(k, name))
            => log[j].res = Err("identifier not found: " \o name)

\* the program a
C13_Witness ==
    /\ phase = "done"
    /\ program = Program(<<ExpressionStatement(Identifier("a"))>>)
    /\ result = Err("identifier not found: a")

(***************************************************************************)
(* Claims about the tokenizer                                              *)
(***************************************************************************)
\* the loop of tokenize is about to scan the cluster after the cursor
Scanning == lphase = "scanning" /\ has_next(chars, cposition)
ScannedChar == chars[cposition + 2]
\* the cluster that follows the scanned one, if any
HasFollowing == cposition + 3 <= Len(chars)
Following == chars[cposition + 3]

StandaloneKind == [c \in {">", "<", "!"} |->
    CASE c = ">" -> "GreaterThan" [] c = "<" -> "LessThan" [] c = "!" -> "Else"]
CompoundKind == [c \in {">", "<", "!"} |->
    CASE c = ">" -> "GreaterThanOrEqual" [] c = "<" -> "LessThanOrEqual"
      [] c = "!" -> "NotEqual"]

\* C14: a step that scans the leading cluster of a two-cluster operator
\* emits one token: the compound kind with both clusters as its literal,
\* the cursor on the second cluster, when the following cluster is the
\* continuation; otherwise, the end of the input included, the standalone
\* kind with the one cluster, the cursor on it, so that the following
\* cluster is scanned next.
C14_TwoClusterOperators ==
    [][(Scanning /\ ScannedChar \in DOMAIN StandaloneKind) =>
          IF HasFollowing /\ Following = "="
          THEN /\ lexed' = Append(lexed, Token(CompoundKind[ScannedChar],
                                               <<ScannedChar, "=">>))
               /\ cposition' = cposition + 2
          ELSE /\ lexed' = Append(lexed, Token(StandaloneKind[ScannedChar],
                                               <<ScannedChar>>))
               /\ cposition' = cposition + 1]_vars

\* >=> is a GreaterThanOrEqual and a GreaterThan, !a is an Else and a
C14_Witness ==
    /\ lphase = "done"
    /\ chars = <<" ", ">", "=", ">">>
    /\ lexed = <<StartToken, Token("GreaterThanOrEqual", <<">", "=">>),
                 Token("GreaterThan", <<">">>)>>

C14_WitnessStandalone ==
    /\ lphase = "done"
    /\ chars = <<" ", "!", "a", "<">>
    /\ lexed = <<StartToken, Token("Else", <<"!">>), Token("Identifier", <<"a">>),
                 Token("LessThan", <<"<">>)>>

\* C15: the literal of every Integer or Float token holds at most one '.',
\* and the token is a Float exactly when it holds one.
C15_NumberHasOneDot ==
    \A i \in 1..Len(lexed) :
        lexed[i].type \in {"Integer", "Float"} =>
            /\ Cardinality(Dots(lexed[i].literal)) <= 1
            /\ (lexed[i].type = "Float") = (Cardinality(Dots(lexed[i].literal)) = 1)

\* 1.. is one Float token with the literal 1..
C15_TwoDotsOneToken ==
    /\ lphase = "done"
    /\ chars = <<" ", "1", ".", ".">>
    /\ lexed = <<StartToken, Token("Float", <<"1", ".", ".">>)>>

\* the part that holds: a numeric token is a Float exactly when a dot
\* cluster was consumed
C15_KindFollowsDot ==
    \A i \in 1..Len(lexed) :
        lexed[i].type \in {"Integer", "Float"} =>
            (lexed[i].type = "Float") = (Dots(lexed[i].literal) # {})

\* C16: a step that scans a cluster with no token rule (the string-close
\* delimiter, a dot cluster) emits one Illegal token whose literal is the
\* cluster and moves the cursor onto it, so that scanning goes on with the
\* next cluster; a step that scans a whitespace cluster emits nothing.
C16_IllegalAndWhitespace ==
    [][/\ (Scanning /\ ScannedChar \in {StringClose} \cup DOTS) =>
            /\ lexed' = Append(lexed, Token("Illegal", <<ScannedChar>>))
            /\ cposition' = cposition + 1
            /\ lphase' = "scanning"
       /\ (Scanning /\ ScannedChar \in SPACES) =>
            /\ lexed' = lexed
            /\ cposition' = cposition + 1
            /\ lphase' = "scanning"]_vars

\* ^ . is two Illegal tokens
C16_Witness ==
    /\ lphase = "done"
    /\ chars = <<" ", StringClose, " ", ".">>
    /\ lexed = <<StartToken, Token("Illegal", <<StringClose>>), Token("Illegal", <<".">>)>>

(***************************************************************************)
(* types::Environment: a map and an optional outer environment.  scope is  *)
(* the chain of maps from the environment the program holds (the           *)
(* innermost) to the outermost; the outer environments are owned by the    *)
(* inner one and cannot be reached from outside.                           *)
(***************************************************************************)
MaxScopes == 3

None == <<>>
Some(o) == <<o>>

\* get with a fault: the outer environment is asked first
RECURSIVE get_outer_first(_, _)
get_outer_first(chain, identifier) ==
    LET obj == IF Len(chain) > 1 THEN get_outer_first(Tail(chain), identifier) ELSE None
    IN  IF obj = None /\ identifier \in DOMAIN chain[1] THEN Some(chain[1][identifier])
        ELSE obj

\* let mut obj = self.map.get(identifier);
\* if obj.is_none() && let Some(outer) = &self.outer { obj = outer.get(identifier) }
RECURSIVE get(_, _)
get(chain, identifier) ==
    LET obj == IF identifier \in DOMAIN chain[1] THEN Some(chain[1][identifier]) ELSE None
    IN  IF obj = None /\ Len(chain) > 1 THEN get(Tail(chain), identifier) ELSE obj

\* self.map.insert(identifier, value)
set(chain, identifier, value) ==
    <<EnvSet(chain[1], identifier, value)>> \o Tail(chain)

\* Environment { map: HashMap::new(), outer: Some(outer) }
new_enclosed(outer) == <<EmptyEnv>> \o outer

ScopeValues == {IntegerObj(1), IntegerObj(2)}

\* Environment::new()
InitScope ==
    /\ ReplIdle
    /\ VectorIdle
    /\ scope = <<EmptyEnv>>
    /\ called = [op |-> "new"]
    /\ EvaluatorIdle
    /\ ParserIdle
    /\ LexerIdle
    /\ round = 0
    /\ first = <<>>
    /\ printed = <<>>

ScopeSet ==
    \E identifier \in Names, value \in ScopeValues :
        /\ scope' = set(scope, identifier, value)
        /\ called' = [op |-> "set", identifier |-> identifier, value |-> value]
        /\ UNCHANGED <<evalVars, parseVars, lexVars, printVars, replVars, vecVars>>

ScopeGet ==
    \E identifier \in Names :
        /\ called' = [op |-> "get", identifier |-> identifier,
                      returned |-> get(scope, identifier)]
        /\ UNCHANGED <<scope, evalVars, parseVars, lexVars, printVars, replVars, vecVars>>

ScopeNewEnclosed ==
    /\ Len(scope) < MaxScopes
    /\ scope' = new_enclosed(scope)
    /\ called' = [op |-> "new_enclosed"]
    /\ UNCHANGED <<evalVars, parseVars, lexVars, printVars, replVars, vecVars>>

NextScope == ScopeSet \/ ScopeGet \/ ScopeNewEnclosed

SpecScope == InitScope /\ [][NextScope]_vars

\* the environments of the chain that bind the name
Binders(identifier) == {i \in 1..Len(scope) : identifier \in DOMAIN scope[i]}
Innermost(identifier) == CHOOSE i \in Binders(identifier) : \A j \in Binders(identifier) : i <= j

\* C17: get returns the binding of the innermost environment of the chain
\* that binds the name, and None when none does; set writes the innermost
\* environment's own map and changes no binding of an enclosing one.
C17_ScopeChain ==
    [][/\ called'.op = "get" =>
            /\ scope' = scope
            /\ called'.returned =
                  IF Binders(called'.identifier) = {} THEN None
                  ELSE Some(scope[Innermost(called'.identifier)][called'.identifier])
       /\ called'.op = "set" =>
            /\ Len(scope') = Len(scope)
            /\ \A i \in 2..Len(scope) : scope'[i] = scope[i]
            /\ DOMAIN scope'[1] = DOMAIN scope[1] \cup {called'.identifier}
            /\ scope'[1][called'.identifier] = called'.value
            /\ \A n \in DOMAIN scope[1] \ {called'.identifier} : scope'[1][n] = scope[1][n]
      ]_vars

\* a is bound to 1 two environments out and to 2 in the innermost, b only
\* in the middle one; get(b) returned the middle binding
C17_Witness ==
    /\ Len(scope) = 3
    /\ "a" \in DOMAIN scope[3] /\ scope[3]["a"] = IntegerObj(1)
    /\ "a" \in DOMAIN scope[1] /\ scope[1]["a"] = IntegerObj(2)
    /\ DOMAIN scope[2] = {"b"}
    /\ called = [op |-> "get", identifier |-> "b", returned |-> Some(scope[2]["b"])]


(***************************************************************************)
(* The operands of the one infix expression of an InfixPrograms program,   *)
(* as eval_infix_expression received them, and what it returned.           *)
(***************************************************************************)
LeftPath == <<1, 0, Left>>
RightPath == <<1, 0, Right>>
InfixPath == <<1, 0>>

\* both operands evaluated, eval_infix_expression was called on them
Applied ==
    /\ phase # "ready"
    /\ IsOk(ResultAt(LeftPath))
    /\ IsOk(ResultAt(RightPath))
LeftObject == ResultAt(LeftPath).obj
RightObject == ResultAt(RightPath).obj
\* what the call returned; a panic returns nothing and leaves no entry
InfixResult == IF phase = "aborted" THEN result ELSE ResultAt(InfixPath)

ArithmeticOperators == {"+", "-", "*", "/", "%"}
OrderingOperators == {">", ">=", "<", "<="}
IsNumeric(o) == o.type \in {"Integer", "Float"}
BothNumeric == IsNumeric(LeftObject) /\ IsNumeric(RightObject)

(***************************************************************************)
(* C18.  For two operands of differing Object variants, equal yields       *)
(* Boolean false and not-equal yields Boolean true, an Integer against a   *)
(* Float of the same numeric value included, and every ordering or         *)
(* arithmetic operator yields an error.                                    *)
(***************************************************************************)
CrossVariantRule ==
    CASE TheInfix.operator = "=" -> InfixResult = Ok(FALSE_OBJ)
      [] TheInfix.operator = "!=" -> InfixResult = Ok(TRUE_OBJ)
      [] TheInfix.operator \in ArithmeticOperators \cup OrderingOperators ->
            IsErr(InfixResult)
      [] OTHER -> TRUE

C18_CrossVariantOperators ==
    (Applied /\ LeftObject.type # RightObject.type) => CrossVariantRule

\* the Integer 1 and the Float 1.0 under equal: the result is Boolean true
C18_IntegerEqualsFloat ==
    /\ Applied
    /\ TheInfix.operator = "="
    /\ LeftObject = IntegerObj(1)
    /\ RightObject = FloatObj(f64_of_i64(1))
    /\ InfixResult = Ok(TRUE_OBJ)

\* the rule holds of the pairs of differing variants that are not an
\* Integer with a Float
C18_CrossVariantNotBothNumeric ==
    (Applied /\ LeftObject.type # RightObject.type /\ ~BothNumeric)
        => CrossVariantRule

\* a pair of differing variants that falls back to the derived equality:
\* a ReturnValue against the Integer it wraps, under not-equal
C18_Witness ==
    /\ Applied
    /\ TheInfix.operator = "!="
    /\ LeftObject = ReturnValue(IntegerObj(1))
    /\ RightObject = IntegerObj(1)
    /\ InfixResult = Ok(TRUE_OBJ)

(***************************************************************************)
(* C19.  Numeric promotion decides the variant of the result: Integer with *)
(* Integer under an arithmetic operator yields an Integer (a zero divisor, *)
(* which the language makes an error, aside); a Float with an Integer or a *)
(* Float yields a Float under an arithmetic operator; every comparison of  *)
(* two numeric operands yields a Boolean; operands that are not both       *)
(* numeric yield a Boolean under equal and not-equal and an error under    *)
(* every other operator.                                                   *)
(***************************************************************************)
IntegerZeroDivisor ==
    /\ TheInfix.operator \in {"/", "%"}
    /\ LeftObject.type = "Integer"
    /\ RightObject = IntegerObj(0)

YieldsVariant(type) == IsOk(InfixResult) /\ InfixResult.obj.type = type

C20_ReturnValueNeverVisible ==
    (phase = "done" /\ IsOk(result)) => ~IsReturnValue(result.obj)

\* a return statement whose value, an if-expression, returned: the wrapper
\* is wrapped again, and the Program yields the inner wrapper
C20_NestedReturn ==
    /\ phase = "done"
    /\ IsOkReturn(result)
    /\ \E i \in 1..Len(log) :
          /\ LogNode(i).node = "ReturnStatement"
          /\ LogNode(i).value.node = "IfExpression"
          /\ IsOkReturn(log[i].res)
          /\ IsReturnValue(log[i].res.obj.boxed)

\* the part that holds: a Program that succeeds yields a ReturnValue only
\* when the value of some return statement evaluated to a ReturnValue
C20_VisibleOnlyByNestedReturn ==
    (phase = "done" /\ IsOkReturn(result)) =>
        \E i \in 1..Len(log) :
            /\ LogNode(i).node = "ReturnStatement"
            /\ IsOkReturn(log[i].res)
            /\ ResultAt(log[i].path \o <<0>>) = Ok(log[i].res.obj.boxed)
            /\ IsReturnValue(log[i].res.obj.boxed)


(***************************************************************************)
(* C21.  Binary operators of equal precedence are left-associative: a      *)
(* chain a op1 b op2 c without parentheses whose operators have the same   *)
(* precedence is parsed as (a op1 b) op2 c, and the operand of a prefix    *)
(* operator binds tighter than any binary operator: prefix-op a op b is    *)
(* parsed as (prefix-op a) op b.                                           *)
(***************************************************************************)
IsPrefixInput == tokens \in PrefixInputs
SamePrecedence == Level(tokens[3].type) = Level(tokens[5].type)

LeftAssociated ==
    /\ errors = <<>>
    /\ pstatements = <<ExpressionStatement(
            InfixExpression(
                InfixExpression(Identifier("a"), Str(tokens[3].literal), Identifier("b")),
                Str(tokens[5].literal), Identifier("c")))>>

PrefixBindsTighter ==
    /\ errors = <<>>
    /\ pstatements = <<ExpressionStatement(
            InfixExpression(
                PrefixExpression(Str(tokens[2].literal), Identifier("a")),
                Str(tokens[4].literal), Identifier("b")))>>

\* the parse has ended, by a return or by a panic
ParseEnded == pphase \in {"done", "panicked", "diverged"}

C21_LeftAssociative ==
    /\ (ParseEnded /\ IsOperatorInput /\ SamePrecedence) =>
            (pphase = "done" /\ LeftAssociated)
    /\ (ParseEnded /\ IsPrefixInput) => (pphase = "done" /\ PrefixBindsTighter)

\* a | b | c: the statement a, an error at each |, the statement b, and a
\* panic at c, the last token; no (a | b) | c
C21_OrChain ==
    /\ InputIs(<<"Identifier", "Or", "Identifier", "Or", "Identifier">>)
    /\ pphase = "panicked"
    /\ Len(errors) = 2
    /\ pstatements = <<ExpressionStatement(Identifier("a")),
                       ExpressionStatement(Identifier("b"))>>

\* the same property for the operators that have an entry in the
\* parser's precedence table
C21_TableOperatorsLeftAssociative ==
    /\ (ParseEnded /\ IsOperatorInput /\ SamePrecedence
            /\ tokens[3].type \notin {"Or", "And"}) =>
            (pphase = "done" /\ LeftAssociated)
    /\ (ParseEnded /\ IsPrefixInput /\ tokens[4].type \notin {"Or", "And"}) =>
            (pphase = "done" /\ PrefixBindsTighter)

\* - a * b is (- a) * b
C21_MinusTimes ==
    /\ InputIs(<<"Minus", "Identifier", "Multiply", "Identifier">>)
    /\ pphase = "done"
    /\ PrefixBindsTighter


(***************************************************************************)
(* Truthiness.  A Program of two statements over one expression x: the     *)
(* prefix expression `pre x`, then `if x { 1 }` or `if x { 1 } else { 2 }`.*)
(* x runs over expressions for every kind of Object the evaluator can      *)
(* produce, and over an unbound identifier, whose evaluation is an error.  *)
(***************************************************************************)
TruthExpressions ==
    Operands
        \cup {PrefixExpression("-", x) : x \in FloatOperands \ {FloatLiteral(15, 1)}}
        \cup {Identifier("a")}

Consequence == BlockStatement(<<ExpressionStatement(IntegerLiteral(1))>>)
Alternative == BlockStatement(<<ExpressionStatement(IntegerLiteral(2))>>)

TruthPrograms ==
    {Program(<<ExpressionStatement(PrefixExpression(pre, x)),
               ExpressionStatement(IfExpression(x, Consequence, alt))>>) :
        pre \in {"~", "-"}, x \in TruthExpressions, alt \in {<<>>, <<Alternative>>}}

InitTruth ==
    /\ ReplIdle
    /\ VectorIdle
    /\ program \in TruthPrograms
    /\ env = EmptyEnv
    /\ result = NoResult
    /\ log = <<>>
    /\ phase = "ready"
    /\ ParserIdle
    /\ LexerIdle
    /\ PrintIdle

SpecTruth == InitTruth /\ [][NextEval]_vars

PrefixPath == <<1, 0>>
IfPath == <<2, 0>>
ThePrefix == program.statements[1].expression
TheIf == program.statements[2].expression
\* what the condition of the if-expression evaluated to
ConditionResult == ResultAt(IfPath \o <<Cond>>)
\* a block of the if-expression was evaluated
TookConsequence == Evaluated(IfPath \o <<Cons>>)
TookAlternative == Evaluated(IfPath \o <<Alt>>)


(***************************************************************************)
(* C22.  The truthiness rule is the same for conditionals and for the not  *)
(* operator: for every Object v that is not a ReturnValue, an if-expression*)
(* with condition v takes its consequence exactly when not v yields false, *)
(* in particular for Integer and Float values that are zero or negative    *)
(* and for the empty String.                                               *)
(***************************************************************************)
NotApplied ==
    /\ phase = "done"
    /\ ThePrefix.operator = "~"
    /\ IsOk(ConditionResult)
ConditionObject == ConditionResult.obj
NotResult == ResultAt(PrefixPath)

C22_SameTruthiness ==
    (NotApplied /\ ~IsReturnValue(ConditionObject)) =>
        (TookConsequence <=> NotResult = Ok(FALSE_OBJ))

\* the Integer 0: not 0 yields true, and if 0 takes its consequence
C22_ZeroTakesConsequence ==
    /\ NotApplied
    /\ ConditionObject = IntegerObj(0)
    /\ NotResult = Ok(TRUE_OBJ)
    /\ TookConsequence

\* the values on which the two rules differ
IsPositive(o) ==
    CASE o.type = "Integer" -> o.int > 0
      [] o.type = "Float" -> f64_lt(f64_of_i64(0), o.float)
      [] OTHER -> FALSE
RulesDiffer(o) ==
    \/ o.type \in {"Integer", "Float"} /\ ~IsPositive(o)
    \/ o = StringObj("")

\* the part that holds: the two rules agree on every other Object, and on
\* these both the consequence is taken and not yields true
C22_RulesDifferOnNonPositiveAndEmpty ==
    (NotApplied /\ ~IsReturnValue(ConditionObject)) =>
        IF RulesDiffer(ConditionObject)
        THEN TookConsequence /\ NotResult = Ok(TRUE_OBJ)
        ELSE TookConsequence <=> NotResult = Ok(FALSE_OBJ)


(***************************************************************************)
(* C23.  Prefix not yields the Boolean negation of the operand's           *)
(* truthiness, where an Integer and a Float are true exactly when greater  *)
(* than zero, a Boolean is itself, a String is true exactly when it is not *)
(* empty and Null is false; applied to a ReturnValue it yields an error    *)
(* and never a Boolean.                                                    *)
(***************************************************************************)
Truthiness(o) ==
    CASE o.type \in {"Integer", "Float"} -> IsPositive(o)
      [] o.type = "Boolean" -> o = TRUE_OBJ
      [] o.type = "String" -> o # StringObj("")
      [] o.type = "Null" -> FALSE

C23_NotNegatesTruthiness ==
    NotApplied =>
        IF IsReturnValue(ConditionObject) THEN IsErr(NotResult)
        ELSE NotResult = Ok(to_bool_object(~Truthiness(ConditionObject)))

\* not of the Integer -1 is true
C23_Witness ==
    /\ NotApplied
    /\ ConditionObject = IntegerObj(-1)
    /\ NotResult = Ok(TRUE_OBJ)

\* not of a ReturnValue is an error
C23_WitnessReturnValue ==
    /\ NotApplied
    /\ IsReturnValue(ConditionObject)
    /\ IsErr(NotResult)

(***************************************************************************)
(* C24.  An if-expression evaluates exactly one branch: the consequence    *)
(* when the condition is Boolean true or any Object that is neither Null   *)
(* nor a Boolean, the alternative when the condition is Null or Boolean    *)
(* false; with a false condition and no alternative it yields Null and     *)
(* evaluates no block, and an error in the condition evaluates neither     *)
(* branch.                                                                 *)
(***************************************************************************)
ConditionHolds == ConditionObject \notin {NULL, FALSE_OBJ}
IfResult == ResultAt(IfPath)

C24_OneBranch ==
    phase = "done" =>
        IF ~IsOk(ConditionResult)
        THEN ~TookConsequence /\ ~TookAlternative /\ IfResult = ConditionResult
        ELSE IF ConditionHolds
        THEN /\ TookConsequence /\ ~TookAlternative
             /\ IfResult = ResultAt(IfPath \o <<Cons>>)
        ELSE IF TheIf.alternative # <<>>
        THEN /\ TookAlternative /\ ~TookConsequence
             /\ IfResult = ResultAt(IfPath \o <<Alt>>)
        ELSE ~TookConsequence /\ ~TookAlternative /\ IfResult = Ok(NULL)

\* a Null condition and an alternative: the alternative alone is evaluated
C24_Witness ==
    /\ phase = "done"
    /\ ConditionResult = Ok(NULL)
    /\ TookAlternative
    /\ ~TookConsequence
    /\ IfResult = Ok(IntegerObj(2))

\* a false condition and no alternative: Null, and no block is evaluated
C24_WitnessNoAlternative ==
    /\ phase = "done"
    /\ ConditionResult = Ok(FALSE_OBJ)
    /\ TheIf.alternative = <<>>
    /\ ~TookConsequence
    /\ IfResult = Ok(NULL)

\* an error in the condition: neither block is evaluated
C24_WitnessConditionError ==
    /\ phase = "done"
    /\ IsErr(ConditionResult)
    /\ ~TookConsequence
    /\ ~TookAlternative


(***************************************************************************)
(* C25.  An Identifier token is a maximal run of identifier clusters: its  *)
(* literal is the concatenation of one or more consecutive clusters none   *)
(* of which is a reserved symbol, a digit, a decimal dot or whitespace,    *)
(* and the cluster right after the run, if any, is not an identifier       *)
(* cluster; a name of several glyphs is one token, and a digit or a        *)
(* reserved symbol ends the name.  Stated of each step of the tokenizer:   *)
(* a step on an identifier cluster appends the Identifier token of the     *)
(* whole run that starts there and leaves the cursor on the run's last     *)
(* cluster, and no other step appends an Identifier token.                 *)
(***************************************************************************)
IdentifierCluster(c) == c \notin RESERVED_SYMBOLS \cup DIGITALS \cup DOTS \cup SPACES

\* the last index of the run of identifier clusters that starts at index i
RunEnd(i) ==
    CHOOSE j \in i..Len(chars) :
        /\ \A k \in i..j : IdentifierCluster(chars[k])
        /\ j = Len(chars) \/ ~IdentifierCluster(chars[j + 1])

C25_IdentifierIsMaximalRun ==
    [][Scanning =>
        IF IdentifierCluster(ScannedChar)
        THEN /\ lexed' = Append(lexed, Token("Identifier",
                                SubSeq(chars, cposition + 2, RunEnd(cposition + 2))))
             /\ cposition' = RunEnd(cposition + 2) - 1
        ELSE \A i \in (Len(lexed) + 1)..Len(lexed') : lexed'[i].type # "Identifier"]_vars

\* a b 1 +: the name ab is one token, ended by the digit
C25_Witness ==
    /\ lphase = "done"
    /\ chars = <<" ", "a", "b", "1", "+">>
    /\ lexed = <<StartToken, Token("Identifier", <<"a", "b">>),
                 Token("Integer", <<"1">>), Token("Plus", <<"+">>)>>


(***************************************************************************)
(* C26.  Parse errors are accumulated without stopping the parse: each     *)
(* failing statement-level parse adds exactly one message to the error     *)
(* list and no statement to the Program, each succeeding one adds exactly  *)
(* one statement and no message, and the statements parsed before and      *)
(* after a failing one all appear in the Program in source order.          *)
(***************************************************************************)
StatementParse == pphase = "parsing" /\ HasNext(position)
AddsOneMessage ==
    /\ Len(errors') = Len(errors) + 1
    /\ SubSeq(errors', 1, Len(errors)) = errors
    /\ pstatements' = pstatements
AddsOneStatement ==
    /\ Len(pstatements') = Len(pstatements) + 1
    /\ SubSeq(pstatements', 1, Len(pstatements)) = pstatements
    /\ errors' = errors

C26_ErrorsAccumulate ==
    [][StatementParse => (pphase' = "parsing" /\ (AddsOneMessage \/ AddsOneStatement))]_vars

\* the part that holds: a statement-level parse that returns adds one
\* message or one statement, after the ones already there
C26_AccumulateWhenReturned ==
    [][(StatementParse /\ pphase' = "parsing") =>
            (AddsOneMessage \/ AddsOneStatement)]_vars

\* | 1: the error of the first statement-level parse, then the statement 1
C26_StatementAfterError ==
    /\ pphase = "done"
    /\ Len(errors) >= 1
    /\ Len(plog) >= 2
    /\ plog[1].outcome = "Err"
    /\ plog[Len(plog)].outcome = "Ok"
    /\ pstatements # <<>>


(***************************************************************************)
(* The interactive shell (src/src/repl.rs).  One turn of its loop reads a  *)
(* line, tokenizes it, parses it and, when the parser reported no error,   *)
(* evaluates the Program; the turn is taken in steps: the line is read,    *)
(* the tokenizer's and the parser's steps, the answer.                     *)
(***************************************************************************)
MaxLines == 3

\* the lines typed: a <- 1 ;  a ;  b <- a ;  1  a  | 1  a <- 1 ; a ;  a <- | ;
ReplLines ==
    {<<"a", "<-", "1", ";">>, <<"a", ";">>, <<"b", "<-", "a", ";">>, <<"1">>, <<"a">>,
     <<"|", "1">>, <<"a", "<-", "1", ";", "a", ";">>, <<"a", "<-", "|", ";">>}

\* line_env with a fault: the environment is made once, before the loop
line_env_kept(previous) == previous
\* let mut env = Environment::new(), in the body of the loop
line_env(previous) == EmptyEnv

InitRepl ==
    /\ rphase = "prompt"
    /\ lines = 0
    /\ output = <<>>
    /\ EvaluatorIdle
    /\ ParserIdle
    /\ LexerIdle
    /\ PrintIdle
    /\ VectorIdle

\* read_line, Lexer::new(&line), Environment::new(); read_line keeps the
\* line's newline, a space cluster
ReplReadLine ==
    /\ rphase = "prompt"
    /\ lines < MaxLines
    /\ \E line \in ReplLines : chars' = line \o <<" ">>
    /\ cposition' = 0
    /\ lexed' = <<>>
    /\ lphase' = "new"
    /\ tokens' = <<>>
    /\ position' = 0
    /\ errors' = <<>>
    /\ pstatements' = <<>>
    /\ plog' = <<>>
    /\ pphase' = "idle"
    /\ program' = Program(<<>>)
    /\ env' = line_env(env)
    /\ result' = NoResult
    /\ log' = <<>>
    /\ phase' = "idle"
    /\ rphase' = "line"
    /\ lines' = lines + 1
    /\ UNCHANGED <<output, printVars, scopeVars, vecVars>>

\* after parse_program: the parser's errors are printed and the loop
\* continues, or the Program is evaluated and the outcome printed
ReplAnswer ==
    /\ rphase = "line"
    /\ pphase = "done"
    /\ IF errors # <<>>
       THEN /\ output' = Append(output, [line |-> chars, kind |-> "ParserErrors",
                                         errors |-> errors])
            /\ rphase' = "prompt"
            /\ UNCHANGED evalVars
       ELSE LET o == eval(Program(pstatements), env, <<>>, <<>>)
            IN  /\ program' = Program(pstatements)
                /\ env' = o.env
                /\ result' = o.res
                /\ log' = o.log
                /\ phase' = IF IsPanic(o.res) THEN "aborted" ELSE "done"
                /\ rphase' = IF IsPanic(o.res) THEN "aborted" ELSE "prompt"
                /\ output' = IF IsPanic(o.res) THEN output
                             ELSE Append(output, [line |-> chars, kind |-> "Evaluated",
                                                  res |-> o.res])
    /\ UNCHANGED <<lines, parseVars, lexVars, printVars, scopeVars, vecVars>>

NextRepl ==
    \/ ReplReadLine
    \/ TokenizeStart
    \/ TokenizeStep
    \/ TokenizeReturn
    \/ ParserNew
    \/ ParseStatementStep
    \/ ParseProgramReturn
    \/ ReplAnswer

SpecRepl == InitRepl /\ [][NextRepl]_vars

(***************************************************************************)
(* C27.  The interactive shell keeps no state between lines: every input   *)
(* line is evaluated in a fresh, empty environment, so a name assigned on  *)
(* one line is unbound on the next line, and a line whose parse produced   *)
(* at least one error is never passed to the evaluator.                    *)
(***************************************************************************)
\* the line was answered, the next prompt is up
Answered == rphase = "prompt" /\ lines >= 1

C27_NoStateBetweenLines ==
    /\ rphase = "line" => env = EmptyEnv
    /\ (Answered /\ phase = "done") =>
            \A i \in 1..Len(log), name \in Names :
                (IsReferenceTo(i, name) /\ IsOk(log[i].res)) =>
                    \E j \in 1..(i - 1) : IsAssignOf(j, name)
    /\ (Answered /\ errors # <<>>) =>
            /\ phase = "idle"
            /\ result = NoResult
            /\ log = <<>>
            /\ output[Len(output)].kind = "ParserErrors"

\* a <- 1 ; answers 1, and a ; on the next line is an unbound name
C27_Witness ==
    /\ Answered
    /\ Len(output) = 2
    /\ output[1].line = <<" ", "a", "<-", "1", ";", " ">>
    /\ output[1].kind = "Evaluated"
    /\ output[1].res = Ok(IntegerObj(1))
    /\ output[2].line = <<" ", "a", ";", " ">>
    /\ output[2].kind = "Evaluated"
    /\ output[2].res = Err("identifier not found: a")

\* | 1 holds the statement 1 and one parse error: it is not evaluated
C27_WitnessParserErrors ==
    /\ Answered
    /\ pstatements # <<>>
    /\ errors # <<>>
    /\ phase = "idle"
    /\ output[Len(output)].kind = "ParserErrors"


(***************************************************************************)
(* C28.  After any sequence of evaluated statements, no binding of the     *)
(* environment holds a ReturnValue: an assign statement whose right-hand   *)
(* side produces a ReturnValue, such as an if-expression whose block       *)
(* returns, does not store the wrapper under the name.                     *)
(***************************************************************************)
C28_NoReturnValueBound ==
    phase = "done" => \A name \in DOMAIN env : ~IsReturnValue(env[name])

\* a <- if 1 { return 1 } leaves a bound to ReturnValue(1)
C28_AssignStoresWrapper ==
    /\ phase = "done"
    /\ program = Program(<<AssignStatement("a",
            IfExpression(IntegerLiteral(1),
                         BlockStatement(<<ReturnStatement(IntegerLiteral(1))>>), <<>>))>>)
    /\ env["a"] = ReturnValue(IntegerObj(1))

(***************************************************************************)
(* Evaluation in an environment that already holds bindings.               *)
(***************************************************************************)
InitialEnvs == {EmptyEnv, ("a" :> IntegerObj(3)) @@ ("b" :> TRUE_OBJ)}

InitFrame ==
    /\ ReplIdle
    /\ VectorIdle
    /\ program \in Programs
    /\ env \in InitialEnvs
    /\ result = NoResult
    /\ log = <<>>
    /\ phase = "ready"
    /\ ParserIdle
    /\ LexerIdle
    /\ PrintIdle

SpecFrame == InitFrame /\ [][NextEval]_vars

\* the entries of the log lg that are assign statements to name whose
\* right-hand side evaluated to a value: the assignments that succeeded
Assigned(lg, name) ==
    {i \in 2..Len(lg) :
        /\ NodeAt(program, lg[i].path).node = "AssignStatement"
        /\ NodeAt(program, lg[i].path).name.name = name
        /\ lg[i - 1].path = lg[i].path \o <<0>>
        /\ IsOk(lg[i - 1].res)}
\* the entries that are assign statements whose right-hand side failed
FailedAssigns(lg) ==
    {i \in 2..Len(lg) :
        /\ NodeAt(program, lg[i].path).node = "AssignStatement"
        /\ lg[i - 1].path = lg[i].path \o <<0>>
        /\ IsErr(lg[i - 1].res)}
Latest(indices) == CHOOSE i \in indices : \A k \in indices : k <= i

(***************************************************************************)
(* C29.  Only a successful assign statement changes the environment: the   *)
(* evaluation of a node that holds no AssignStatement leaves every binding *)
(* unchanged, and an AssignStatement whose right-hand side evaluates to an *)
(* error writes no binding, the name keeps its previous value or stays     *)
(* unbound.  Stated of one evaluation: a name that no assign statement     *)
(* succeeded on is bound after it as before it, and any other name is      *)
(* bound to the value of the last assign statement that succeeded on it.   *)
(***************************************************************************)
C29_OnlyAssignChangesEnv ==
    [][phase = "ready" =>
        /\ DOMAIN env' \subseteq DOMAIN env \cup Names
        /\ \A name \in DOMAIN env \cup Names :
              IF Assigned(log', name) = {}
              THEN /\ (name \in DOMAIN env') = (name \in DOMAIN env)
                   /\ name \in DOMAIN env => env'[name] = env[name]
              ELSE /\ name \in DOMAIN env'
                   /\ env'[name] = log'[Latest(Assigned(log', name))].res.obj]_vars

\* a <- a in the empty environment: the right-hand side is an error and a
\* stays unbound
C29_Witness ==
    /\ phase = "done"
    /\ program = Program(<<AssignStatement("a", Identifier("a"))>>)
    /\ FailedAssigns(log) # {}
    /\ env = EmptyEnv

\* a program without assign statements leaves the bindings a = 3, b = true
C29_WitnessNoAssign ==
    /\ phase = "done"
    /\ program = Program(<<ExpressionStatement(Identifier("a"))>>)
    /\ result = Ok(IntegerObj(3))
    /\ env = ("a" :> IntegerObj(3)) @@ ("b" :> TRUE_OBJ)


(***************************************************************************)
(* StatefulVector (src/src/util.rs) with its usize arithmetic.  position   *)
(* is a usize: a subtraction below zero or an addition past the largest    *)
(* value panics in a build with overflow checks and wraps in one without.  *)
(* The width is scaled down to UsizeBits bits; the vectors stay far        *)
(* shorter than 2^UsizeBits.                                               *)
(***************************************************************************)
UsizeBits == 6
MaxVector == 3
RECURSIVE Pow2(_)
Pow2(k) == IF k = 0 THEN 1 ELSE 2 * Pow2(k - 1)
UsizeRange == Pow2(UsizeBits)

Overflowed == [panic |-> TRUE]
Usize(v) == [panic |-> FALSE, v |-> v]
usize_sub(a, b, build) ==
    IF a >= b THEN Usize(a - b)
    ELSE IF build = "debug" THEN Overflowed ELSE Usize(a - b + UsizeRange)
usize_add(a, b, build) ==
    IF a + b < UsizeRange THEN Usize(a + b)
    ELSE IF build = "debug" THEN Overflowed ELSE Usize(a + b - UsizeRange)

\* what a call leaves: the vector, the position, what it returned; or a panic
Returned(vector, pos, returned) ==
    [panic |-> FALSE, vector |-> vector, position |-> pos, returned |-> returned]

\* has_next(): is_pos_valid(self.position + 1)
sv_has_next(vector, pos, build) ==
    LET n == usize_add(pos, 1, build)
    IN  IF n.panic THEN Overflowed ELSE Usize(is_pos_valid(vector, n.v))

\* has_previous(): is_pos_valid(self.position - 1)
sv_has_previous(vector, pos, build) ==
    LET n == usize_sub(pos, 1, build)
    IN  IF n.panic THEN Overflowed ELSE Usize(is_pos_valid(vector, n.v))

sv_to_next(vector, pos, build) ==
    LET h == sv_has_next(vector, pos, build)
    IN  IF h.panic THEN Overflowed
        ELSE IF h.v
        THEN LET n == usize_add(pos, 1, build)
             IN  Returned(vector, n.v, Some(vector[n.v + 1]))
        ELSE Returned(vector, pos, None)

sv_to_previous(vector, pos, build) ==
    LET h == sv_has_previous(vector, pos, build)
    IN  IF h.panic THEN Overflowed
        ELSE IF h.v
        THEN LET n == usize_sub(pos, 1, build)
             IN  Returned(vector, n.v, Some(vector[n.v + 1]))
        ELSE Returned(vector, pos, None)

sv_push(vector, pos, element) == Returned(Append(vector, element), pos, None)

\* pop(): the cursor is moved to the last element when it is past the end
sv_pop(vector, pos, build) ==
    IF vector = <<>> THEN Returned(vector, pos, None)
    ELSE LET rest == SubSeq(vector, 1, Len(vector) - 1)
             ele == Some(vector[Len(vector)])
         IN  IF pos >= Len(rest)
             THEN LET n == usize_sub(Len(rest), 1, build)
                  IN  IF n.panic THEN Overflowed ELSE Returned(rest, n.v, ele)
             ELSE Returned(rest, pos, ele)

Elements == {"x", "y"}

\* StatefulVector::new(), in either build
InitVector ==
    /\ vvector = <<>>
    /\ vposition = 0
    /\ vcalled = [op |-> "new", panic |-> FALSE]
    /\ vbuild \in {"debug", "release"}
    /\ ReplIdle
    /\ EvaluatorIdle
    /\ ParserIdle
    /\ LexerIdle
    /\ PrintIdle

\* a call whose outcome is o, made at the position vposition
Call(op, o) ==
    /\ ~vcalled.panic
    /\ vcalled' = IF o.panic THEN [op |-> op, panic |-> TRUE, before |-> vposition]
                  ELSE [op |-> op, panic |-> FALSE, before |-> vposition,
                        returned |-> o.returned]
    /\ vvector' = IF o.panic THEN vvector ELSE o.vector
    /\ vposition' = IF o.panic THEN vposition ELSE o.position
    /\ UNCHANGED <<vbuild, evalVars, parseVars, lexVars, printVars, scopeVars, replVars>>

VectorToNext == Call("to_next", sv_to_next(vvector, vposition, vbuild))
VectorToPrevious == Call("to_previous", sv_to_previous(vvector, vposition, vbuild))
VectorHasPrevious ==
    LET h == sv_has_previous(vvector, vposition, vbuild)
    IN  Call("has_previous",
             IF h.panic THEN Overflowed ELSE Returned(vvector, vposition, h.v))
VectorPush ==
    /\ Len(vvector) < MaxVector
    /\ \E element \in Elements : Call("push", sv_push(vvector, vposition, element))
VectorPop == Call("pop", sv_pop(vvector, vposition, vbuild))

NextVector ==
    \/ VectorToNext
    \/ VectorToPrevious
    \/ VectorHasPrevious
    \/ VectorPush
    \/ VectorPop

SpecVector == InitVector /\ [][NextVector]_vars

(***************************************************************************)
(* C30.  The cursor of a non-empty StatefulVector always stays a valid     *)
(* index: after any sequence of to_next, to_previous, push and pop calls,  *)
(* position is less than the length whenever the vector is not empty;      *)
(* to_next at the last element and to_previous or has_previous at          *)
(* position 0 return None or false and leave position unchanged, without   *)
(* arithmetic underflow, and pop of the only element does not underflow    *)
(* position.                                                               *)
(***************************************************************************)
C30_CursorStaysValid ==
    /\ ~vcalled.panic
    /\ vvector # <<>> => vposition < Len(vvector)
    /\ vposition < Len(vvector) \/ vposition = 0
    /\ (vcalled.op = "to_next" /\ vcalled.before + 1 = Len(vvector)) =>
            (vcalled.returned = None /\ vposition = vcalled.before)
    /\ (vcalled.op = "to_previous" /\ vcalled.before = 0) =>
            (vcalled.returned = None /\ vposition = 0)
    /\ (vcalled.op = "has_previous" /\ vcalled.before = 0) =>
            (vcalled.returned = FALSE /\ vposition = 0)

\* with overflow checks: to_previous at position 0 panics
C30_ToPreviousPanics ==
    /\ vbuild = "debug"
    /\ vcalled.op = "to_previous"
    /\ vcalled.panic
    /\ vposition = 0

\* without overflow checks: pop of the only element wraps position, and the
\* next push leaves a vector of one element with the cursor far past it
C30_PopWrapsPosition ==
    /\ vbuild = "release"
    /\ vcalled.op = "push"
    /\ Len(vvector) = 1
    /\ vposition = UsizeRange - 1

\* the part that holds: to_next at the last element returns None and leaves
\* position unchanged, in either build
C30_ToNextAtLastElement ==
    (vcalled.op = "to_next" /\ ~vcalled.panic /\ vcalled.before + 1 = Len(vvector)) =>
        (vcalled.returned = None /\ vposition = vcalled.before)

====
